---- MODULE Spec2Model ----
(***************************************************************************)
(* Tractatus-Eval dataset generators: grid navigation (spatial), key-lock, *)
(* stacking, container, collision and circuit.  Every generator samples an *)
(* instance, solves it, synthesizes distractors, shuffles the choices and  *)
(* emits a record.  Random draws (rng.sample, rng.choice, rng.shuffle,     *)
(* rng.randint) are nondeterministic choices.                              *)
(*                                                                         *)
(* Cells are <<row, col>>, 0-based as in the source.  Optional results use *)
(* the empty sequence (a path is never empty) or a record with a `found`   *)
(* field in place of Python's None.                                        *)
(***************************************************************************)
EXTENDS Integers, Sequences, FiniteSets, TLC

VARIABLES
    domain,             \* which generator script runs
    args,               \* the run's parameters (num_samples, ...)
    pc,                 \* position in main / the function under study
    scenario,           \* the scenario of the current attempt
    distractors,        \* generate_distractors' list under construction
    tries,              \* iterations left in the current retry loop
    doc,                \* the record assembled by the current attempt
    samples,            \* instance fields of the records emitted so far
    seen_fingerprints,  \* the dedup ledger (spatial, keylock)
    attempts,           \* loop iterations started
    counts,             \* class counters (collision, circuit)
    inp,                \* input of the pure function under study
    out,                \* its result
    sim                 \* locals of the validator during a replay

vars == <<domain, args, pc, scenario, distractors, tries, doc, samples,
          seen_fingerprints, attempts, counts, inp, out, sim>>

\* the state of a generator run, untouched while one function is studied
runVars == <<domain, args, scenario, distractors, tries, doc, samples,
             seen_fingerprints, attempts, counts>>

----------------------------------------------------------------------------
(* Bounds of the model *)

\* largest grid_size handed to a_star / simulate_path as a parameter
MaxGrid == 3
\* most obstacle cells in an input of a_star
MaxObst == 3
\* cells of the grid on which a key-lock instance places its objects
MaxPool == 8
\* most obstacle cells in a key-lock instance
MaxKeyObst == 1
\* largest --num-samples of a generator run
MaxSamples == 2
\* iterations of a retry loop of generate_distractors (50, 20, 100 or 10 in the
\* source): a loop stops at 3 distractors, so 3 iterations reach every list
\* the longer loop can return
MaxTries == 3
\* GRID_SIZE of the spatial script, scaled down
NavGrid == 2
\* GRID_SIZE of the key-lock script, scaled down (generate_scenario wants 10 cells)
KeyGrid == 4
\* the cells, first in row-major order, on which a run of the key-lock
\* generator lays out its start, end, key and door
GenPool == 4
\* distinct tokens in a random walk of the key-lock strategy 5
KeyWalkTokens == 1
\* largest |r| for the length jitter r = rng.randint(-2, 2) of strategy 5
MaxLenJitter == 0
\* the moves of an answer, counted from its start, that a mutation may redraw
MaxMutateAt == 1
\* value at which the key-lock attempts counter, read only by the progress
\* lines, stops counting
MaxAttempts == 1
\* the factor of max_attempts = num_samples * 20, scaled down
AttemptFactor == 2
\* MAX_WIDTH of the stacking script, scaled down; also the tallest tower
MaxWidth == 3
\* most containers of a scenario (2 or 3 in the source)
MaxContainers == 2
\* largest capacity of a container (10 in the source)
MaxCap == 2
\* fewest and most actions of a container scenario (3 and 5 in the source)
FewestActions == 1
MostActions == 1
\* GRID_SIZE and MAX_STEPS of the collision script, scaled down
ColGrid == 2
ColSteps == 1
\* the cells, first in row-major order, on which the collision generator
\* places its two objects
ColPool == 2
\* the largest --grid-size and --max-switches of a run of the circuit script
CircuitGrid == 3
MaxSwitches == 2

----------------------------------------------------------------------------
(* Generic helpers *)

Abs(x) == IF x < 0 THEN 0 - x ELSE x

Range(s) == {s[i] : i \in 1..Len(s)}

Cells(grid_size) == (0..(grid_size - 1)) \X (0..(grid_size - 1))

InGrid(p, grid_size) ==
    /\ 0 <= p[1] /\ p[1] < grid_size
    /\ 0 <= p[2] /\ p[2] < grid_size

\* the value standing for None where a path is expected
None == <<>>

NoScenario == [kind |-> "None"]
NoDoc == [kind |-> "None"]
NoInput == [kind |-> "None"]
NoSim == [kind |-> "None"]

----------------------------------------------------------------------------
(* generate_spatial_eval.py: A* pathfinding *)

DIRECTIONS == << <<-1, 0>>, <<1, 0>>, <<0, -1>>, <<0, 1>> >>

DIR_NAMES(d) ==
    CASE d = <<-1, 0>> -> "up"
      [] d = <<1, 0>>  -> "down"
      [] d = <<0, -1>> -> "left"
      [] d = <<0, 1>>  -> "right"

heuristic(a, b) == Abs(a[1] - b[1]) + Abs(a[2] - b[2])

\* mutant: the entry pushed last is popped first, whatever its priority
heappop_lifo(open_set) ==
    CHOOSE e \in open_set : \A o \in open_set : e.counter >= o.counter

\* heapq.heappop on tuples (f, counter, node, path): least f, then least counter
heappop(open_set) ==
    CHOOSE e \in open_set :
        \A o \in open_set :
            e.f < o.f \/ (e.f = o.f /\ e.counter <= o.counter)

\* the neighbours the for-loop of a_star pushes, in the order of DIRECTIONS
a_star_neighbors(current, obstacles, visited, grid_size) ==
    LET all == [i \in 1..4 |-> <<current[1] + DIRECTIONS[i][1],
                                 current[2] + DIRECTIONS[i][2]>>]
        ok(n) == /\ InGrid(n, grid_size)
                 /\ n \notin obstacles
                 /\ n \notin visited
    IN SelectSeq(all, ok)

RECURSIVE a_star_loop(_, _, _, _, _, _)
a_star_loop(open_set, counter, visited, end, obstacles, grid_size) ==
    IF open_set = {} THEN None
    ELSE LET e == heappop(open_set)
             rest == open_set \ {e}
         IN IF e.node = end THEN e.path
            ELSE IF e.node \in visited
            THEN a_star_loop(rest, counter, visited, end, obstacles, grid_size)
            ELSE LET visited2 == visited \cup {e.node}
                     nbrs == a_star_neighbors(e.node, obstacles, visited2, grid_size)
                     g == Len(e.path)
                     pushed == {[f |-> g + heuristic(nbrs[i], end),
                                 counter |-> counter + i,
                                 node |-> nbrs[i],
                                 path |-> Append(e.path, nbrs[i])] : i \in 1..Len(nbrs)}
                 IN a_star_loop(rest \cup pushed, counter + Len(nbrs), visited2,
                                end, obstacles, grid_size)

a_star(start, end, obstacles, grid_size) ==
    a_star_loop({[f |-> heuristic(start, end), counter |-> 0,
                  node |-> start, path |-> <<start>>]},
                0, {}, end, obstacles, grid_size)

\* mutant: the row and column deltas are read in the wrong order
path_to_directions_transposed(path) ==
    [i \in 1..(Len(path) - 1) |->
        DIR_NAMES(<<path[i + 1][2] - path[i][2], path[i + 1][1] - path[i][1]>>)]

path_to_directions(path) ==
    [i \in 1..(Len(path) - 1) |->
        DIR_NAMES(<<path[i + 1][1] - path[i][1], path[i + 1][2] - path[i][2]>>)]

----------------------------------------------------------------------------
(* generate_spatial_eval.py: playback validator and distractor synthesis.
   A direction list stands for the string ", ".join builds from it wherever
   it is replayed; Join builds the string itself where strings are compared. *)

\* sep.join(l) on a list of strings
RECURSIVE Join(_, _)
Join(sep, l) ==
    IF Len(l) = 0 THEN ""
    ELSE IF Len(l) = 1 THEN l[1]
    ELSE l[1] \o sep \o Join(sep, Tail(l))

all_dir_names == <<"up", "down", "left", "right">>

\* the loop body of simulate_path without the break statements: a violation
\* sets its flag and the replay goes on with the next direction
simulate_path_step_no_break(s, d, obstacles, grid_size) ==
    IF d \notin Range(all_dir_names)
    THEN [s EXCEPT !.out_of_bounds = TRUE]
    ELSE LET vec == CASE d = "up"    -> <<-1, 0>>
                      [] d = "down"  -> <<1, 0>>
                      [] d = "left"  -> <<0, -1>>
                      [] d = "right" -> <<0, 1>>
             next_pos == <<s.pos[1] + vec[1], s.pos[2] + vec[2]>>
         IN IF ~InGrid(next_pos, grid_size)
            THEN [s EXCEPT !.out_of_bounds = TRUE]
            ELSE IF next_pos \in obstacles
            THEN [s EXCEPT !.hit_wall = TRUE]
            ELSE [s EXCEPT !.pos = next_pos]

\* one iteration of the for-loop of simulate_path on direction d
simulate_path_step(s, d, obstacles, grid_size) ==
    IF d \notin Range(all_dir_names)
    THEN [s EXCEPT !.out_of_bounds = TRUE, !.broke = TRUE]
    ELSE LET vec == CASE d = "up"    -> <<-1, 0>>
                      [] d = "down"  -> <<1, 0>>
                      [] d = "left"  -> <<0, -1>>
                      [] d = "right" -> <<0, 1>>
             next_pos == <<s.pos[1] + vec[1], s.pos[2] + vec[2]>>
         IN IF ~InGrid(next_pos, grid_size)
            THEN [s EXCEPT !.out_of_bounds = TRUE, !.broke = TRUE]
            ELSE IF next_pos \in obstacles
            THEN [s EXCEPT !.hit_wall = TRUE, !.broke = TRUE]
            ELSE [s EXCEPT !.pos = next_pos]

RECURSIVE simulate_path_loop(_, _, _, _, _)
simulate_path_loop(s, directions, i, obstacles, grid_size) ==
    IF i > Len(directions) \/ s.broke THEN s
    ELSE simulate_path_loop(simulate_path_step(s, directions[i], obstacles, grid_size),
                            directions, i + 1, obstacles, grid_size)

\* the SimulationResult of replaying `directions` from start
simulate_path(start, end, obstacles, directions, grid_size) ==
    LET s == simulate_path_loop([pos |-> start, hit_wall |-> FALSE,
                                 out_of_bounds |-> FALSE, broke |-> FALSE],
                                directions, 1, obstacles, grid_size)
    IN [reached_goal |-> (s.pos = end), hit_wall |-> s.hit_wall,
        out_of_bounds |-> s.out_of_bounds, final_position |-> s.pos]

\* mutant: the gate lets every candidate through
is_path_physically_invalid_open(start, end, obstacles, directions, grid_size) == TRUE

is_path_physically_invalid(start, end, obstacles, directions, grid_size) ==
    LET result == simulate_path(start, end, obstacles, directions, grid_size)
    IN IF result.hit_wall \/ result.out_of_bounds THEN TRUE
       ELSE IF ~result.reached_goal THEN TRUE
       ELSE FALSE

\* the set `used` of generate_distractors: the canonical string and every
\* string appended so far
used_strings(correct, dlist) ==
    {Join(", ", correct)} \cup {Join(", ", dlist[i]) : i \in 1..Len(dlist)}

\* _try_add of the spatial generate_distractors: the list after the attempt
spatial_try_add(dlist, candidate_dirs, sc) ==
    IF Join(", ", candidate_dirs) \in used_strings(sc.path_directions, dlist)
    THEN dlist
    ELSE IF ~is_path_physically_invalid(sc.start, sc.end, sc.obstacles,
                                        candidate_dirs, sc.grid_size)
    THEN dlist
    ELSE Append(dlist, candidate_dirs)

\* strategy 1: rows first, then columns, ignoring obstacles
naive_dirs(start, end) ==
    LET nr == Abs(end[1] - start[1])
        nc == Abs(end[2] - start[2])
    IN [i \in 1..(nr + nc) |->
          IF i <= nr THEN (IF end[1] > start[1] THEN "down" ELSE "up")
          ELSE (IF end[2] > start[2] THEN "right" ELSE "left")]

opposite(d) ==
    CASE d = "up"    -> "down"
      [] d = "down"  -> "up"
      [] d = "left"  -> "right"
      [] d = "right" -> "left"

\* strategy 3: the correct path reversed, every direction flipped
rev_flipped(correct) ==
    [i \in 1..Len(correct) |-> opposite(correct[Len(correct) + 1 - i])]

\* distractors[:num_distractors]
FirstN(l, n) == IF Len(l) <= n THEN l ELSE SubSeq(l, 1, n)

\* the orders rng.shuffle can leave a list of n items in: position i of the
\* result holds item p[i] of the original
ShuffleOrders(n) ==
    {p \in [1..n -> 1..n] : \A i, j \in 1..n : p[i] = p[j] => i = j}

\* what the prompt shows of a grid scenario (size, start, goal, obstacles);
\* equal prompts are equal strings
spatial_render_prompt(sc) ==
    [grid_size |-> sc.grid_size, start |-> sc.start, end |-> sc.end,
     obstacles |-> sc.obstacles]

\* hashlib.sha256(prompt).hexdigest(), taken as collision-free on prompts
sha256(text) == [sha256_of |-> text]

----------------------------------------------------------------------------
(* Reference notions used to state the claims about a_star *)

Adjacent(p, q) == Abs(p[1] - q[1]) + Abs(p[2] - q[2]) = 1

FreeNeighbors(S, obstacles, grid_size) ==
    {q \in Cells(grid_size) \ obstacles : \E p \in S : Adjacent(p, q)}

\* breadth-first distance from the cells of `frontier` (at distance k) to end,
\* -1 when end cannot be reached
RECURSIVE BfsLayers(_, _, _, _, _, _)
BfsLayers(frontier, reached, k, end, obstacles, grid_size) ==
    IF end \in frontier THEN k
    ELSE IF frontier = {} THEN -1
    ELSE LET next == FreeNeighbors(frontier, obstacles, grid_size) \ reached
         IN BfsLayers(next, reached \cup next, k + 1, end, obstacles, grid_size)

BfsDistance(start, end, obstacles, grid_size) ==
    BfsLayers({start}, {start}, 0, end, obstacles, grid_size)

----------------------------------------------------------------------------
(* Specification of a_star as a pure function: Init draws its arguments *)

\* the subsets of S with at most k elements
RECURSIVE SubsetsUpTo(_, _)
SubsetsUpTo(S, k) ==
    IF k = 0 THEN {{}}
    ELSE LET prev == SubsetsUpTo(S, k - 1)
         IN prev \cup {p \cup {x} : p \in prev, x \in S}

Idle ==
    /\ domain = "none"
    /\ args = [num_samples |-> 0]
    /\ scenario = NoScenario
    /\ distractors = <<>>
    /\ tries = 0
    /\ doc = NoDoc
    /\ samples = <<>>
    /\ seen_fingerprints = {}
    /\ attempts = 0
    /\ counts = [pos |-> 0, neg |-> 0]

InitAStar ==
    /\ Idle
    /\ pc = "call"
    \* a grid of every size up to MaxGrid, any start and end cell on it and up
    \* to MaxObst obstacle cells elsewhere
    /\ \E n \in 1..MaxGrid :
         \E s \in Cells(n), e \in Cells(n) :
            \E o \in SubsetsUpTo(Cells(n) \ {s, e}, MaxObst) :
               inp = [kind |-> "a_star", grid_size |-> n, start |-> s, end |-> e,
                      obstacles |-> o]
    /\ out = None
    /\ sim = NoSim

CallAStar ==
    /\ pc = "call"
    /\ inp.kind = "a_star"
    /\ out' = a_star(inp.start, inp.end, inp.obstacles, inp.grid_size)
    /\ pc' = "returned"
    /\ UNCHANGED <<runVars, inp, sim>>

NextAStar == CallAStar

SpecAStar == InitAStar /\ [][NextAStar]_vars

\* a path from start to end: consecutive cells adjacent, in bounds, off obstacles
IsRoute(path, start, end, obstacles, grid_size) ==
    /\ Len(path) >= 1
    /\ path[1] = start
    /\ path[Len(path)] = end
    /\ \A i \in 1..Len(path) :
          InGrid(path[i], grid_size) /\ (i > 1 => path[i] \notin obstacles)
    /\ \A i \in 1..(Len(path) - 1) : Adjacent(path[i], path[i + 1])

(* C8: a_star returns None exactly when the end cannot be reached from the
   start by 4-neighbour moves avoiding obstacles; otherwise it returns a path
   from start to end, adjacent cell by adjacent cell, in bounds, touching no
   obstacle, whose step count is the breadth-first distance. *)
AStarShortest ==
    (pc = "returned" /\ inp.kind = "a_star") =>
        LET d == BfsDistance(inp.start, inp.end, inp.obstacles, inp.grid_size)
        IN IF d = -1 THEN out = None
           ELSE /\ out # None
                /\ IsRoute(out, inp.start, inp.end, inp.obstacles, inp.grid_size)
                /\ Len(out) - 1 = d

\* a returned path that had to go around obstacles: longer than the Manhattan distance
AStarDetourWitness ==
    /\ pc = "returned" /\ inp.kind = "a_star"
    /\ out # None
    /\ Len(out) - 1 > heuristic(inp.start, inp.end)

\* an unreachable end: a_star returned None
AStarNoneWitness ==
    /\ pc = "returned" /\ inp.kind = "a_star"
    /\ out = None

----------------------------------------------------------------------------
(* generate_keylock_eval.py: state-aware BFS over (position, inventory) *)

COLORS == <<"red", "blue">>

\* the keys of DIR_VECTORS
MOVES == {"up", "down", "left", "right"}

DIR_VECTORS(action) ==
    CASE action = "up"    -> <<-1, 0>>
      [] action = "down"  -> <<1, 0>>
      [] action = "left"  -> <<0, -1>>
      [] action = "right" -> <<0, 1>>

\* f"pick_up_{color}" and f"unlock_{color}"
pick_up(color) == "pick_up_" \o color

unlock(color) == "unlock_" \o color

\* s.startswith(prefix)
startswith(s, prefix) ==
    Len(s) >= Len(prefix) /\ SubSeq(s, 1, Len(prefix)) = prefix

\* action.startswith("pick_up_"), action.startswith("unlock_") and the
\* colour that follows the prefix
starts_with_pick_up(action) == startswith(action, "pick_up_")

starts_with_unlock(action) == startswith(action, "unlock_")

\* action[len("pick_up_"):] in the pick-up branch, action[len("unlock_"):] in
\* the unlock branch
color_of(action) ==
    IF starts_with_pick_up(action)
    THEN SubSeq(action, Len("pick_up_") + 1, Len(action))
    ELSE SubSeq(action, Len("unlock_") + 1, Len(action))

\* mutant: a door lets the agent through whatever it holds
can_pass_always(door_color, inv) == TRUE

\* the door check of bfs_with_keys: the matching key must be held
can_pass(door_color, inv) == door_color \in inv

\* the queue entry pushed by the pick-up branch, if any
bfs_pick_up(e, keys) ==
    IF e.pos \in DOMAIN keys /\ keys[e.pos] \notin e.inv
    THEN << [pos |-> e.pos,
             inv |-> e.inv \cup {keys[e.pos]},
             path |-> Append(e.path, e.pos),
             actions |-> Append(e.actions, pick_up(keys[e.pos]))] >>
    ELSE << >>

\* the queue entry pushed for direction d, if any
bfs_move(e, d, obstacles, doors, grid_size) ==
    LET new_pos == <<e.pos[1] + d[1], e.pos[2] + d[2]>>
    IN IF ~InGrid(new_pos, grid_size) THEN << >>
       ELSE IF new_pos \in obstacles THEN << >>
       ELSE IF new_pos \in DOMAIN doors
       THEN IF ~can_pass(doors[new_pos], e.inv) THEN << >>
            ELSE << [pos |-> new_pos, inv |-> e.inv,
                     path |-> Append(e.path, new_pos),
                     actions |-> e.actions \o <<unlock(doors[new_pos]), DIR_NAMES(d)>>] >>
       ELSE << [pos |-> new_pos, inv |-> e.inv,
                path |-> Append(e.path, new_pos),
                actions |-> Append(e.actions, DIR_NAMES(d))] >>

\* one iteration of the while loop: the entries appended to the queue.  The
\* candidate states of one iteration are pairwise distinct, so testing them
\* against `visited` as it stood at the pop equals the sequential test.
bfs_expand(e, visited, obstacles, keys, doors, grid_size) ==
    LET cand == bfs_pick_up(e, keys)
                \o bfs_move(e, DIRECTIONS[1], obstacles, doors, grid_size)
                \o bfs_move(e, DIRECTIONS[2], obstacles, doors, grid_size)
                \o bfs_move(e, DIRECTIONS[3], obstacles, doors, grid_size)
                \o bfs_move(e, DIRECTIONS[4], obstacles, doors, grid_size)
        fresh(c) == <<c.pos, c.inv>> \notin visited
    IN SelectSeq(cand, fresh)

\* the deque is the suffix of `entries` from index `head`; popleft advances head
RECURSIVE bfs_loop(_, _, _, _, _, _, _, _)
bfs_loop(entries, head, visited, end, obstacles, keys, doors, grid_size) ==
    IF head > Len(entries)
    THEN [found |-> FALSE, path |-> << >>, actions |-> << >>, explored |-> entries]
    ELSE LET e == entries[head]
             pushed == bfs_expand(e, visited, obstacles, keys, doors, grid_size)
             entries2 == entries \o pushed
         IN IF e.pos = end
            THEN [found |-> TRUE, path |-> e.path, actions |-> e.actions,
                  explored |-> entries2]
            ELSE bfs_loop(entries2, head + 1,
                          visited \cup {<<pushed[i].pos, pushed[i].inv>> : i \in 1..Len(pushed)},
                          end, obstacles, keys, doors, grid_size)

\* found = FALSE stands for None; explored lists every entry ever queued
bfs_with_keys(start, end, obstacles, keys, doors, grid_size) ==
    bfs_loop(<< [pos |-> start, inv |-> {}, path |-> <<start>>, actions |-> << >>] >>,
             1, {<<start, {}>>}, end, obstacles, keys, doors, grid_size)

----------------------------------------------------------------------------
(* generate_keylock_eval.py: the playback validator simulate_actions *)

\* the locals of simulate_actions before the first action; `broke` records that
\* a break has left the loop
sim_start(start) ==
    [pos |-> start, inv |-> {}, hit_wall |-> FALSE, out_of_bounds |-> FALSE,
     locked_door_blocked |-> FALSE, invalid_pickup |-> FALSE,
     invalid_unlock |-> FALSE, broke |-> FALSE]

\* one iteration of the for-loop on `action`
simulate_step(s, action, obstacles, keys, doors, grid_size) ==
    LET s1 == s
    IN IF starts_with_pick_up(action)
       THEN LET color == color_of(action)
            IN IF s.pos \in DOMAIN keys /\ keys[s.pos] = color /\ color \notin s.inv
               THEN [s1 EXCEPT !.inv = @ \cup {color}]
               ELSE [s1 EXCEPT !.invalid_pickup = TRUE, !.broke = TRUE]
       ELSE IF starts_with_unlock(action)
       THEN IF color_of(action) \notin s.inv
            THEN [s1 EXCEPT !.invalid_unlock = TRUE, !.broke = TRUE]
            ELSE s1
       ELSE IF action \in MOVES
       THEN LET d == DIR_VECTORS(action)
                new_pos == <<s.pos[1] + d[1], s.pos[2] + d[2]>>
            IN IF ~InGrid(new_pos, grid_size)
               THEN [s1 EXCEPT !.out_of_bounds = TRUE, !.broke = TRUE]
               ELSE IF new_pos \in obstacles
               THEN [s1 EXCEPT !.hit_wall = TRUE, !.broke = TRUE]
               ELSE IF new_pos \in DOMAIN doors /\ doors[new_pos] \notin s.inv
               THEN [s1 EXCEPT !.locked_door_blocked = TRUE, !.broke = TRUE]
               ELSE [s1 EXCEPT !.pos = new_pos]
       \* no branch matches any other token: the loop moves on
       ELSE s1

RECURSIVE simulate_loop(_, _, _, _, _, _, _)
simulate_loop(s, actions, i, obstacles, keys, doors, grid_size) ==
    IF i > Len(actions) \/ s.broke THEN s
    ELSE simulate_loop(simulate_step(s, actions[i], obstacles, keys, doors, grid_size),
                       actions, i + 1, obstacles, keys, doors, grid_size)

\* the KeyLockSimResult built from the locals at the return
KeyLockSimResult(s, end) ==
    [reached_goal |-> (s.pos = end), hit_wall |-> s.hit_wall,
     out_of_bounds |-> s.out_of_bounds,
     locked_door_blocked |-> s.locked_door_blocked,
     invalid_pickup |-> s.invalid_pickup, invalid_unlock |-> s.invalid_unlock,
     final_position |-> s.pos, inventory |-> s.inv]

simulate_actions(start, end, obstacles, keys, doors, actions, grid_size) ==
    KeyLockSimResult(
        simulate_loop(sim_start(start), actions, 1, obstacles, keys, doors, grid_size),
        end)

is_action_seq_invalid(start, end, obstacles, keys, doors, actions, grid_size) ==
    LET result == simulate_actions(start, end, obstacles, keys, doors, actions, grid_size)
    IN IF result.hit_wall \/ result.out_of_bounds THEN TRUE
       ELSE IF result.locked_door_blocked THEN TRUE
       ELSE IF result.invalid_pickup \/ result.invalid_unlock THEN TRUE
       ELSE IF ~result.reached_goal THEN TRUE
       ELSE FALSE

----------------------------------------------------------------------------
(* Specification of bfs_with_keys and simulate_actions as functions of one
   key-lock instance: Init draws the instance, the replay draws its actions *)

\* the first MaxPool cells of the grid in row-major order
PoolCells(grid_size) ==
    {c \in Cells(grid_size) : c[1] * grid_size + c[2] < MaxPool}

\* key and door cells of the first num_pairs colours, as the dicts of the source
PairDict(cells, num_pairs) ==
    [c \in {cells[i] : i \in 1..num_pairs} |->
        IF c = cells[1] THEN COLORS[1] ELSE COLORS[2]]

\* every token an action list may hold: moves, pick-ups, unlocks and a token
\* no branch of the validator knows
ACTION_TOKENS ==
    MOVES \cup {pick_up(COLORS[i]) : i \in 1..2}
          \cup {unlock(COLORS[i]) : i \in 1..2} \cup {"wait"}

NoResult == [found |-> FALSE, path |-> << >>, actions |-> << >>, explored |-> << >>]

InitKeyLock ==
    /\ Idle
    /\ pc = "call"
    \* the agent starts in the top-left corner; the end, one or two key-door
    \* pairs and up to MaxKeyObst obstacles lie on distinct cells of the pool
    /\ \E num_pairs \in 1..2 :
         \E end \in PoolCells(MaxGrid) \ {<<0, 0>>} :
           \E k \in PoolCells(MaxGrid) \X PoolCells(MaxGrid),
              d \in PoolCells(MaxGrid) \X PoolCells(MaxGrid) :
              LET placed == {<<0, 0>>, end} \cup {k[i] : i \in 1..num_pairs}
                                            \cup {d[i] : i \in 1..num_pairs}
              IN /\ Cardinality(placed) = 2 + 2 * num_pairs
                 /\ (num_pairs = 1 => k[2] = k[1] /\ d[2] = d[1])
                 /\ \E o \in SubsetsUpTo(PoolCells(MaxGrid) \ placed, MaxKeyObst) :
                      inp = [kind |-> "keylock", grid_size |-> MaxGrid,
                             start |-> <<0, 0>>, end |-> end, obstacles |-> o,
                             keys |-> PairDict(k, num_pairs),
                             doors |-> PairDict(d, num_pairs)]
    /\ out = NoResult
    /\ sim = NoSim

CallBfsWithKeys ==
    /\ pc = "call"
    /\ inp.kind = "keylock"
    /\ out' = bfs_with_keys(inp.start, inp.end, inp.obstacles, inp.keys,
                            inp.doors, inp.grid_size)
    /\ pc' = "solved"
    /\ UNCHANGED <<runVars, inp, sim>>

\* simulate_actions entered on the instance: the locals before the loop
CallSimulateActions ==
    /\ pc = "call"
    /\ inp.kind = "keylock"
    /\ sim' = sim_start(inp.start)
    /\ pc' = "replay"
    /\ UNCHANGED <<runVars, inp, out>>

\* one iteration of the loop, on whatever action comes next in the list
SimulateStep ==
    /\ pc = "replay"
    /\ inp.kind = "keylock"
    /\ ~sim.broke
    /\ \E action \in ACTION_TOKENS :
         sim' = simulate_step(sim, action, inp.obstacles, inp.keys, inp.doors,
                              inp.grid_size)
    /\ UNCHANGED <<runVars, pc, inp, out>>

NextKeyLock ==
    \/ CallBfsWithKeys
    \/ CallSimulateActions
    \/ SimulateStep

SpecKeyLock == InitKeyLock /\ [][NextKeyLock]_vars

----------------------------------------------------------------------------
(* Reference notion for the solver: the least number of actions of a sequence
   that reaches the goal, where every move onto a door cell is immediately
   preceded by the unlock of that door's colour (possible only with the key
   held), a pick-up takes the key lying on the agent's cell, and every move,
   pick_up and unlock counts as one action.  `armed` is the colour unlocked
   by the previous action. *)

StrictSteps(st, obstacles, keys, doors, grid_size) ==
    {[pos |-> st.pos, inv |-> st.inv \cup {keys[st.pos]}, armed |-> "none"] :
        x \in {y \in {st.pos} : y \in DOMAIN keys /\ keys[y] \notin st.inv}}
    \cup {[pos |-> st.pos, inv |-> st.inv, armed |-> c] : c \in st.inv}
    \cup {[pos |-> q, inv |-> st.inv, armed |-> "none"] :
            q \in {r \in Cells(grid_size) \ obstacles :
                     /\ Adjacent(st.pos, r)
                     /\ r \in DOMAIN doors => st.armed = doors[r]}}

RECURSIVE StrictLayers(_, _, _, _, _, _, _, _)
StrictLayers(frontier, reached, n, end, obstacles, keys, doors, grid_size) ==
    IF \E st \in frontier : st.pos = end THEN n
    ELSE IF frontier = {} THEN -1
    ELSE LET next == UNION {StrictSteps(st, obstacles, keys, doors, grid_size) :
                               st \in frontier} \ reached
         IN StrictLayers(next, reached \cup next, n + 1, end, obstacles, keys,
                         doors, grid_size)

MinActions(start, end, obstacles, keys, doors, grid_size) ==
    LET st0 == [pos |-> start, inv |-> {}, armed |-> "none"]
    IN StrictLayers({st0}, {st0}, 0, end, obstacles, keys, doors, grid_size)

(* C9: for every solvable key-lock instance the action list returned by
   bfs_with_keys is of minimum length: no sequence that replays to the goal
   without violation, with an unlock before each door move, has fewer
   actions than the returned list. *)
BfsMinimalActions ==
    (pc = "solved" /\ inp.kind = "keylock" /\ out.found) =>
        Len(out.actions) <= MinActions(inp.start, inp.end, inp.obstacles,
                                       inp.keys, inp.doors, inp.grid_size)

\* the entry from which explored entry i was pushed: its path and actions are
\* those of entry i without the last step
IsParent(p, e) ==
    /\ p.path = SubSeq(e.path, 1, Len(e.path) - 1)
    /\ Len(p.actions) < Len(e.actions)
    /\ p.actions = SubSeq(e.actions, 1, Len(p.actions))

\* every path explored by the solver: a door cell is entered only with its
\* key, the inventory only grows along the path and grows only by the pick-up
\* of the key lying on the agent's cell
BfsKeyBeforeDoor ==
    (pc = "solved" /\ inp.kind = "keylock") =>
        \A i \in 1..Len(out.explored) :
            LET e == out.explored[i]
            IN /\ e.pos \in DOMAIN inp.doors => inp.doors[e.pos] \in e.inv
               /\ i > 1 =>
                    \E j \in 1..(i - 1) :
                        LET p == out.explored[j]
                        IN /\ IsParent(p, e)
                           /\ p.inv \subseteq e.inv
                           /\ e.inv # p.inv =>
                                /\ e.pos = p.pos
                                /\ p.pos \in DOMAIN inp.keys
                                /\ e.inv = p.inv \cup {inp.keys[p.pos]}
                                /\ e.actions = Append(p.actions, pick_up(inp.keys[p.pos]))

\* every state of a replay: the agent stands on a door cell only with its key
ReplayKeyBeforeDoor ==
    (pc = "replay" /\ inp.kind = "keylock") =>
        (sim.pos \in DOMAIN inp.doors => inp.doors[sim.pos] \in sim.inv)

\* every step of a replay: the inventory only grows, and grows only by the
\* pick_up of the colour of the key lying on the agent's cell
ReplayInventoryStep ==
    (pc = "replay" /\ pc' = "replay" /\ inp.kind = "keylock") =>
        /\ sim.inv \subseteq sim'.inv
        /\ sim'.inv # sim.inv =>
             /\ sim.pos \in DOMAIN inp.keys
             /\ sim'.inv = sim.inv \cup {inp.keys[sim.pos]}
             /\ sim' = simulate_step(sim, pick_up(inp.keys[sim.pos]), inp.obstacles,
                                     inp.keys, inp.doors, inp.grid_size)

(* C10: key before door.  In every path explored by bfs_with_keys and in
   every replay by simulate_actions of any action sequence the agent occupies
   a door cell only while holding the key of that door's colour; the held-key
   set only grows, and a colour enters it only by a pick_up performed on the
   cell where a key of that colour lies. *)
KeyBeforeDoor ==
    /\ [](BfsKeyBeforeDoor /\ ReplayKeyBeforeDoor)
    /\ [][ReplayInventoryStep]_vars

\* a replay has brought the agent onto a door cell
ReplayOnDoorWitness ==
    /\ pc = "replay" /\ inp.kind = "keylock"
    /\ sim.pos \in DOMAIN inp.doors

\* the solver has explored a path onto a door cell with both keys held
BfsOnDoorWitness ==
    /\ pc = "solved" /\ inp.kind = "keylock"
    /\ \E i \in 1..Len(out.explored) :
          /\ out.explored[i].pos \in DOMAIN inp.doors
          /\ Cardinality(out.explored[i].inv) = 2

----------------------------------------------------------------------------
(* generate_spatial_eval.py: generate_scenario, generate_distractors,
   scenario_to_eval_doc and main, one step per draw of the random source *)

\* the parameters of a run of the spatial script: the sample target and the
\* module's GRID_SIZE and NUM_OBSTACLES.  Either an open grid and one sample,
\* or a grid whose every cell but the start and the end is an obstacle.
SpatialArgs ==
    {[num_samples |-> 1, grid_size |-> NavGrid, num_obstacles |-> 0]}
    \cup {[num_samples |-> n, grid_size |-> NavGrid,
           num_obstacles |-> NavGrid * NavGrid - 2] : n \in 1..MaxSamples}

\* max_attempts = args.num_samples * 20, the factor scaled to AttemptFactor
max_attempts == args.num_samples * AttemptFactor

\* while len(samples) < args.num_samples and attempts < max_attempts:
\* attempts += 1; scenario = generate_scenario(rng); if None: continue
SpatialAttempt ==
    /\ pc = "loop"
    /\ domain = "spatial"
    /\ Len(samples) < args.num_samples
    /\ attempts < max_attempts
    /\ attempts' = attempts + 1
    /\ \E start \in Cells(args.grid_size), end \in Cells(args.grid_size) :
         /\ start # end
         /\ \E obstacles \in SubsetsUpTo(Cells(args.grid_size) \ {start, end},
                                         args.num_obstacles) :
              /\ Cardinality(obstacles) = args.num_obstacles
              /\ LET path == a_star(start, end, obstacles, args.grid_size)
                 IN IF path = None
                    THEN /\ scenario' = NoScenario
                         /\ pc' = "loop"
                    ELSE /\ scenario' = [kind |-> "grid",
                                         grid_size |-> args.grid_size,
                                         start |-> start, end |-> end,
                                         obstacles |-> obstacles,
                                         shortest_path |-> path,
                                         path_directions |-> path_to_directions(path)]
                         /\ pc' = "strategy1"
    /\ distractors' = << >>
    /\ tries' = 0
    /\ doc' = NoDoc
    /\ UNCHANGED <<domain, args, samples, seen_fingerprints, counts, inp, out, sim>>

\* strategy 1: the straight line, then the random-walk loop is entered
SpatialNaive ==
    /\ pc = "strategy1"
    /\ domain = "spatial"
    /\ distractors' = spatial_try_add(distractors,
                                      naive_dirs(scenario.start, scenario.end),
                                      scenario)
    /\ tries' = MaxTries
    /\ pc' = "strategy2"
    /\ UNCHANGED <<domain, args, scenario, doc, samples, seen_fingerprints,
                   attempts, counts, inp, out, sim>>

\* strategy 2, one iteration: a random walk as long as the correct path
SpatialRandomWalk ==
    /\ pc = "strategy2"
    /\ domain = "spatial"
    /\ tries > 0
    /\ Len(distractors) < 3
    /\ \E rand_path \in [1..Len(scenario.path_directions) -> Range(all_dir_names)] :
         distractors' = spatial_try_add(distractors, rand_path, scenario)
    /\ tries' = tries - 1
    /\ UNCHANGED <<domain, args, pc, scenario, doc, samples, seen_fingerprints,
                   attempts, counts, inp, out, sim>>

\* the random-walk loop is left; strategy 3 adds the reversed path if needed
SpatialReversed ==
    /\ pc = "strategy2"
    /\ domain = "spatial"
    /\ tries = 0 \/ Len(distractors) >= 3
    /\ distractors' = IF Len(distractors) < 3
                      THEN spatial_try_add(distractors,
                                           rev_flipped(scenario.path_directions),
                                           scenario)
                      ELSE distractors
    /\ tries' = MaxTries
    /\ pc' = "strategy4"
    /\ UNCHANGED <<domain, args, scenario, doc, samples, seen_fingerprints,
                   attempts, counts, inp, out, sim>>

\* strategy 4, one iteration: one position of the correct path redrawn
SpatialMutate ==
    /\ pc = "strategy4"
    /\ domain = "spatial"
    /\ Len(distractors) < 3
    /\ Len(scenario.path_directions) >= 2
    /\ tries > 0
    /\ \E idx \in 1..Len(scenario.path_directions), d \in Range(all_dir_names) :
         distractors' = spatial_try_add(distractors,
                                        [scenario.path_directions EXCEPT ![idx] = d],
                                        scenario)
    /\ tries' = tries - 1
    /\ UNCHANGED <<domain, args, pc, scenario, doc, samples, seen_fingerprints,
                   attempts, counts, inp, out, sim>>

\* mutant: gold keeps the position the canonical answer had before the shuffle
shuffled_doc_stale_gold(doc_id, query, fingerprint, choices, canonical, order) ==
    [kind |-> "doc", doc_id |-> doc_id, query |-> query,
     choices |-> [i \in 1..Len(choices) |-> choices[order[i]]],
     gold |-> canonical - 1,
     fingerprint |-> fingerprint]

\* the record scenario_to_eval_doc builds when the shuffle leaves item
\* order[i] of `choices` (1-based) at position i; gold is 0-based
shuffled_doc(doc_id, query, fingerprint, choices, canonical, order) ==
    [kind |-> "doc", doc_id |-> doc_id, query |-> query,
     choices |-> [i \in 1..Len(choices) |-> choices[order[i]]],
     gold |-> (CHOOSE i \in 1..Len(choices) : order[i] = canonical) - 1,
     fingerprint |-> fingerprint]

\* generate_distractors returns distractors[:3]; scenario_to_eval_doc shuffles
\* [correct] + distractors and fingerprints the prompt; main skips the record
\* if the fingerprint was seen, else appends it
SpatialAssemble ==
    /\ pc = "strategy4"
    /\ domain = "spatial"
    /\ ~(Len(distractors) < 3 /\ Len(scenario.path_directions) >= 2 /\ tries > 0)
    /\ LET returned == FirstN(distractors, 3)
           prompt == spatial_render_prompt(scenario)
           choices == <<Join(", ", scenario.path_directions)>>
                      \o [i \in 1..Len(returned) |-> Join(", ", returned[i])]
           fp == sha256(prompt)
       IN \E order \in ShuffleOrders(Len(choices)) :
            IF fp \in seen_fingerprints
            THEN /\ doc' = NoDoc
                 /\ scenario' = NoScenario
                 /\ distractors' = << >>
                 /\ pc' = "loop"
                 /\ UNCHANGED <<samples, seen_fingerprints>>
            ELSE /\ doc' = shuffled_doc(Len(samples), prompt, fp, choices, 1, order)
                 /\ seen_fingerprints' = seen_fingerprints \cup {fp}
                 /\ samples' = Append(samples, [query |-> prompt])
                 /\ distractors' = << >>
                 /\ pc' = "emitted"
                 /\ UNCHANGED scenario
    /\ tries' = 0
    /\ UNCHANGED <<domain, args, attempts, counts, inp, out, sim>>

\* a record has been appended (written, in the scripts that write as they
\* go): control returns to the loop test.  scenario and doc are rebound by the
\* next iteration before they are read: they are cleared here, as the list
\* local to generate_distractors is when that function has returned
RecordEmitted ==
    /\ pc = "emitted"
    /\ pc' = "loop"
    /\ doc' = NoDoc
    /\ scenario' = NoScenario
    /\ UNCHANGED <<domain, args, distractors, tries, samples, seen_fingerprints,
                   attempts, counts, inp, out, sim>>

\* the loop is left: the JSONL file is written; the statistics printed last
\* take min() of the path lengths, which raises on an empty list
SpatialFinish ==
    /\ pc = "loop"
    /\ domain = "spatial"
    /\ ~(Len(samples) < args.num_samples /\ attempts < max_attempts)
    /\ pc' = IF Len(samples) = 0 THEN "raised" ELSE "done"
    /\ UNCHANGED <<domain, args, scenario, distractors, tries, doc, samples,
                   seen_fingerprints, attempts, counts, inp, out, sim>>

----------------------------------------------------------------------------
(* generate_keylock_eval.py: generate_scenario, generate_distractors,
   scenario_to_eval_doc and main *)

\* a record without a fingerprint field
NoFingerprint == [sha256_of |-> "absent"]

\* generate_scenario without the test of the doors against the keyless path:
\* a draw is rejected whenever the keyless path is no longer
keylock_generate_scenario_any_path(start, end, obstacles, keys, doors, grid_size) ==
    IF grid_size * grid_size < 10 THEN NoScenario
    ELSE LET result == bfs_with_keys(start, end, obstacles, keys, doors, grid_size)
             result_no_keys == bfs_with_keys(start, end, obstacles, << >>, << >>,
                                             grid_size)
         IN IF ~result.found THEN NoScenario
            ELSE IF /\ result_no_keys.found
                    /\ Len(result_no_keys.path) <= Len(result.path)
            THEN NoScenario
            ELSE [kind |-> "keylock", grid_size |-> grid_size, start |-> start,
                  end |-> end, obstacles |-> obstacles, keys |-> keys,
                  doors |-> doors, solution_actions |-> result.actions,
                  solution_path |-> result.path]

\* generate_scenario once the shuffle has laid out start, end, keys, doors and
\* obstacles: None (NoScenario) if the grid has under 10 cells, if the solver
\* finds no path, or if the triviality filter rejects the layout
keylock_generate_scenario(start, end, obstacles, keys, doors, grid_size) ==
    IF grid_size * grid_size < 10 THEN NoScenario
    ELSE LET result == bfs_with_keys(start, end, obstacles, keys, doors, grid_size)
             result_no_keys == bfs_with_keys(start, end, obstacles, << >>, << >>,
                                             grid_size)
         IN IF ~result.found THEN NoScenario
            ELSE IF /\ result_no_keys.found
                    /\ Len(result_no_keys.path) <= Len(result.path)
                    /\ ~\E d \in DOMAIN doors : d \in Range(result_no_keys.path)
            THEN NoScenario
            ELSE [kind |-> "keylock", grid_size |-> grid_size, start |-> start,
                  end |-> end, obstacles |-> obstacles, keys |-> keys,
                  doors |-> doors, solution_actions |-> result.actions,
                  solution_path |-> result.path]

\* fp_data of main and what the prompt shows: start, goal, obstacles, keys, doors
keylock_render_prompt(sc) ==
    [grid_size |-> sc.grid_size, start |-> sc.start, end |-> sc.end,
     obstacles |-> sc.obstacles, keys |-> sc.keys, doors |-> sc.doors]

\* _try_add of the key-lock generate_distractors
keylock_try_add(dlist, candidate_actions, sc) ==
    IF Join(", ", candidate_actions) \in used_strings(sc.solution_actions, dlist)
    THEN dlist
    ELSE IF ~is_action_seq_invalid(sc.start, sc.end, sc.obstacles, sc.keys,
                                   sc.doors, candidate_actions, sc.grid_size)
    THEN dlist
    ELSE Append(dlist, candidate_actions)

\* strategies 1 and 2: the answer without its pick_up / unlock actions
no_pickup(correct) == SelectSeq(correct, LAMBDA a : ~starts_with_pick_up(a))

no_unlock(correct) == SelectSeq(correct, LAMBDA a : ~starts_with_unlock(a))

\* strategy 3: every key colour swapped
swapped(correct) ==
    [i \in 1..Len(correct) |->
        LET a == correct[i]
            other == IF color_of(a) = "red" THEN "blue" ELSE "red"
        IN IF starts_with_pick_up(a) THEN pick_up(other)
           ELSE IF starts_with_unlock(a) THEN unlock(other)
           ELSE a]

\* the tokens strategy 5 draws from: a pick_up of a key colour present, an
\* unlock of a door colour present, or a move
walk_tokens(sc) ==
    MOVES \cup {pick_up(sc.keys[k]) : k \in DOMAIN sc.keys}
          \cup {unlock(sc.doors[d]) : d \in DOMAIN sc.doors}

\* the random walks of strategy 5 the model draws: the length jitter
\* rng.randint(-2, 2) within MaxLenJitter of 0 and at most KeyWalkTokens
\* distinct tokens per walk
random_walks(sc) ==
    UNION { UNION { [1..(IF Len(sc.solution_actions) - 1 + r > 3
                         THEN Len(sc.solution_actions) - 1 + r ELSE 3) -> T]
                    : T \in SubsetsUpTo(walk_tokens(sc), KeyWalkTokens) \ {{}} }
            : r \in (0 - MaxLenJitter)..MaxLenJitter }

\* the indices of the moves of an action list
move_indices(actions) == {i \in 1..Len(actions) : actions[i] \in MOVES}

\* the phase generate_distractors is in once the list is dlist and the loop of
\* strategy 4 has `left` iterations to go
after_mutate(dlist, left) ==
    IF Len(dlist) >= 3 \/ left = 0 THEN "strategy5" ELSE "strategy4"

\* the parameters of a run of the key-lock script: the sample target and the
\* module's GRID_SIZE and NUM_OBSTACLES
KeylockArgs ==
    {[num_samples |-> n, grid_size |-> KeyGrid, num_obstacles |-> 0] :
        n \in 1..MaxSamples}

\* the cells on which the modelled shuffles put what they place
GenCells(grid_size) ==
    {c \in Cells(grid_size) : c[1] * grid_size + c[2] < GenPool}

\* while len(docs) < args.num_samples: attempts += 1; generate_scenario;
\* continue on None; continue on a fingerprint seen; fingerprints.add(fp).
\* The shuffle puts the start on the top-left cell.
KeylockAttempt ==
    /\ pc = "loop"
    /\ domain = "keylock"
    /\ Len(samples) < args.num_samples
    /\ attempts' = IF attempts < MaxAttempts THEN attempts + 1 ELSE attempts
    /\ \E num_pairs \in 1..2 :
         \E end \in GenCells(args.grid_size) \ {<<0, 0>>} :
           \E k \in GenCells(args.grid_size) \X GenCells(args.grid_size),
              d \in GenCells(args.grid_size) \X GenCells(args.grid_size) :
              LET placed == {<<0, 0>>, end} \cup {k[i] : i \in 1..num_pairs}
                                            \cup {d[i] : i \in 1..num_pairs}
              IN /\ Cardinality(placed) = 2 + 2 * num_pairs
                 /\ (num_pairs = 1 => k[2] = k[1] /\ d[2] = d[1])
                 /\ \E o \in SubsetsUpTo(GenCells(args.grid_size) \ placed,
                                         args.num_obstacles) :
                      /\ Cardinality(o) = args.num_obstacles
                      /\ LET sc == keylock_generate_scenario(
                                       <<0, 0>>, end, o, PairDict(k, num_pairs),
                                       PairDict(d, num_pairs), args.grid_size)
                             fp == sha256(keylock_render_prompt(sc))
                         IN IF sc.kind = "None"
                            THEN /\ scenario' = NoScenario
                                 /\ pc' = "loop"
                                 /\ UNCHANGED seen_fingerprints
                            ELSE IF fp \in seen_fingerprints
                            THEN /\ scenario' = NoScenario
                                 /\ pc' = "loop"
                                 /\ UNCHANGED seen_fingerprints
                            ELSE /\ scenario' = sc
                                 /\ pc' = "strategy1"
                                 /\ seen_fingerprints' = seen_fingerprints \cup {fp}
    /\ distractors' = << >>
    /\ tries' = 0
    /\ doc' = NoDoc
    /\ UNCHANGED <<domain, args, samples, counts, inp, out, sim>>

\* strategies 1 to 3: no pick-ups, no unlocks, colours swapped; then the loop
\* of strategy 4 is entered
KeylockFixed ==
    /\ pc = "strategy1"
    /\ domain = "keylock"
    /\ LET correct == scenario.solution_actions
           d1 == keylock_try_add(distractors, no_pickup(correct), scenario)
           d2 == keylock_try_add(d1, no_unlock(correct), scenario)
           d3 == IF DOMAIN scenario.keys # {}
                 THEN keylock_try_add(d2, swapped(correct), scenario)
                 ELSE d2
       IN /\ distractors' = d3
          /\ pc' = after_mutate(d3, MaxTries)
    /\ tries' = MaxTries
    /\ UNCHANGED <<domain, args, scenario, doc, samples, seen_fingerprints,
                   attempts, counts, inp, out, sim>>

\* strategy 4, one iteration: one move of the answer replaced by another
\* direction; after the last iteration the loop of strategy 5 is entered
KeylockMutate ==
    /\ pc = "strategy4"
    /\ domain = "keylock"
    /\ LET correct == scenario.solution_actions
           at == {i \in move_indices(correct) :
                    Cardinality({j \in move_indices(correct) : j <= i}) <= MaxMutateAt}
       IN \E idx \in at :
          \E d \in MOVES \ {correct[idx]} :
            LET dl == keylock_try_add(distractors, [correct EXCEPT ![idx] = d],
                                      scenario)
            IN /\ distractors' = dl
               /\ pc' = after_mutate(dl, tries - 1)
               /\ tries' = IF after_mutate(dl, tries - 1) = "strategy5"
                           THEN MaxTries ELSE tries - 1
    /\ UNCHANGED <<domain, args, scenario, doc, samples, seen_fingerprints,
                   attempts, counts, inp, out, sim>>

\* strategy 5, one iteration: a random walk with key actions
KeylockRandomWalk ==
    /\ pc = "strategy5"
    /\ domain = "keylock"
    /\ tries > 0
    /\ Len(distractors) < 3
    /\ \E random_actions \in random_walks(scenario) :
         distractors' = keylock_try_add(distractors, random_actions, scenario)
    /\ tries' = tries - 1
    /\ UNCHANGED <<domain, args, pc, scenario, doc, samples, seen_fingerprints,
                   attempts, counts, inp, out, sim>>

\* generate_distractors returns; scenario_to_eval_doc returns None on fewer
\* than 3 distractors, else shuffles distractors[:3] + [correct]; main
\* continues on None, else appends the record
KeylockAssemble ==
    /\ pc = "strategy5"
    /\ domain = "keylock"
    /\ tries = 0 \/ Len(distractors) >= 3
    /\ LET returned == FirstN(distractors, 3)
           choices == [i \in 1..Len(returned) |-> Join(", ", returned[i])]
                      \o <<Join(", ", scenario.solution_actions)>>
       IN IF Len(returned) < 3
          THEN /\ doc' = NoDoc
               /\ scenario' = NoScenario
               /\ distractors' = << >>
               /\ pc' = "loop"
               /\ UNCHANGED samples
          ELSE \E order \in ShuffleOrders(4) :
                 /\ doc' = shuffled_doc(Len(samples),
                                        keylock_render_prompt(scenario),
                                        NoFingerprint, choices, 4, order)
                 /\ samples' = Append(samples,
                                      [query |-> keylock_render_prompt(scenario)])
                 /\ distractors' = << >>
                 /\ pc' = "emitted"
                 /\ UNCHANGED scenario
    /\ tries' = 0
    /\ UNCHANGED <<domain, args, seen_fingerprints, attempts, counts, inp, out, sim>>

\* the loop is left and the JSONL file written
KeylockFinish ==
    /\ pc = "loop"
    /\ domain = "keylock"
    /\ ~(Len(samples) < args.num_samples)
    /\ pc' = "done"
    /\ UNCHANGED <<domain, args, scenario, distractors, tries, doc, samples,
                   seen_fingerprints, attempts, counts, inp, out, sim>>

----------------------------------------------------------------------------
(* The four scripts that write each sample as soon as it is built: a sample
   is {"query", "choices", "gold"}; valid_count is the number written *)

\* choices_shuffled.index(x): the 0-based position of the first item equal to x
index_of(l, x) ==
    (CHOOSE i \in 1..Len(l) : l[i] = x /\ \A j \in 1..(i - 1) : l[j] # x) - 1

\* the sample main writes when rng.shuffle leaves item order[i] of
\* choices_strs at position i: gold is where the first string is found again
written_sample(query, choices_strs, order) ==
    LET choices_shuffled == [i \in 1..Len(choices_strs) |-> choices_strs[order[i]]]
    IN [kind |-> "doc", query |-> query, choices |-> choices_shuffled,
        gold |-> index_of(choices_shuffled, choices_strs[1])]

----------------------------------------------------------------------------
(* generate_stacking_eval.py *)

BLOCK_NAMES == <<"A", "B", "C", "D", "E">>
MIN_WIDTH == 1

\* is_stable returning after its first iteration: only the block resting on
\* the bottom block is compared
is_stable_bottom_pair(stack) ==
    \A i \in 2..Len(stack) : i = 2 => ~(stack[i].width > stack[i - 1].width)

\* a tower, bottom first, is stable if no block is wider than the one below
is_stable(stack) ==
    \A i \in 2..Len(stack) : ~(stack[i].width > stack[i - 1].width)

\* l without its i-th item
Without(l, i) == SubSeq(l, 1, i - 1) \o SubSeq(l, i + 1, Len(l))

\* sorted(blocks, key=width, reverse=True): widest first, equal widths in
\* their original order
RECURSIVE sorted_by_width_desc(_)
sorted_by_width_desc(blocks) ==
    IF Len(blocks) = 0 THEN << >>
    ELSE LET i == CHOOSE k \in 1..Len(blocks) :
                    /\ \A j \in 1..Len(blocks) : blocks[j].width <= blocks[k].width
                    /\ \A j \in 1..(k - 1) : blocks[j].width < blocks[k].width
         IN <<blocks[i]>> \o sorted_by_width_desc(Without(blocks, i))

\* generate_scenario once rng.sample has drawn the widths
stacking_generate_scenario(widths) ==
    LET blocks == [i \in 1..Len(widths) |->
                     [name |-> BLOCK_NAMES[i], width |-> widths[i]]]
        stable_blocks == sorted_by_width_desc(blocks)
    IN [kind |-> "stack", blocks |-> blocks,
        stable_stack |-> [i \in 1..Len(blocks) |-> stable_blocks[i].name]]

\* blocks_by_name[name]
block_by_name(sc, name) ==
    sc.blocks[CHOOSE i \in 1..Len(sc.blocks) : sc.blocks[i].name = name]

\* one iteration of the loop of generate_distractors on a shuffled candidate
stacking_try(dlist, candidate_names, sc) ==
    IF candidate_names \in ({sc.stable_stack} \cup Range(dlist)) THEN dlist
    ELSE IF ~is_stable([i \in 1..Len(candidate_names) |->
                          block_by_name(sc, candidate_names[i])])
    THEN Append(dlist, candidate_names)
    ELSE dlist

\* what the prompt shows of a stacking scenario: every block with its width
stacking_render_prompt(sc) == [blocks |-> sc.blocks]

\* format_choice
format_choice(stack_names) == Join(", ", stack_names)

\* NUM_SAMPLES and --num_blocks: towers of MaxWidth blocks, or of 2 blocks,
\* which have a single unstable order
StackingArgs ==
    {[num_samples |-> n, num_blocks |-> MaxWidth] : n \in 1..MaxSamples}
    \cup {[num_samples |-> 1, num_blocks |-> 2]}

\* while valid_count < NUM_SAMPLES: scenario = generate_scenario(rng, num_blocks)
StackingAttempt ==
    /\ pc = "loop"
    /\ domain = "stacking"
    /\ Len(samples) < args.num_samples
    /\ \E order \in ShuffleOrders(MaxWidth - MIN_WIDTH + 1) :
         scenario' = stacking_generate_scenario(
                        [i \in 1..args.num_blocks |-> MIN_WIDTH - 1 + order[i]])
    /\ distractors' = << >>
    /\ tries' = MaxTries
    /\ doc' = NoDoc
    /\ pc' = "shuffles"
    /\ UNCHANGED <<domain, args, samples, seen_fingerprints, attempts, counts,
                   inp, out, sim>>

\* for _ in range(100): shuffle the stable order; keep it if new and unstable
StackingShuffle ==
    /\ pc = "shuffles"
    /\ domain = "stacking"
    /\ tries > 0
    /\ Len(distractors) < 3
    /\ \E order \in ShuffleOrders(Len(scenario.stable_stack)) :
         distractors' = stacking_try(distractors,
                                     [i \in 1..Len(scenario.stable_stack) |->
                                        scenario.stable_stack[order[i]]],
                                     scenario)
    /\ tries' = tries - 1
    /\ UNCHANGED <<domain, args, pc, scenario, doc, samples, seen_fingerprints,
                   attempts, counts, inp, out, sim>>

\* if len(distractors) < 3: continue; else format, shuffle, write the sample
StackingAssemble ==
    /\ pc = "shuffles"
    /\ domain = "stacking"
    /\ ~(tries > 0 /\ Len(distractors) < 3)
    /\ IF Len(distractors) < 3
       THEN /\ doc' = NoDoc
            /\ scenario' = NoScenario
            /\ pc' = "loop"
            /\ UNCHANGED samples
       ELSE LET choices_lists == <<scenario.stable_stack>> \o distractors
                choices_strs == [i \in 1..Len(choices_lists) |->
                                   format_choice(choices_lists[i])]
                prompt == stacking_render_prompt(scenario)
            IN \E order \in ShuffleOrders(Len(choices_strs)) :
                 /\ doc' = written_sample(prompt, choices_strs, order)
                 /\ samples' = Append(samples, [query |-> prompt])
                 /\ pc' = "emitted"
                 /\ UNCHANGED scenario
    /\ distractors' = << >>
    /\ tries' = 0
    /\ UNCHANGED <<domain, args, seen_fingerprints, attempts, counts, inp, out, sim>>

\* valid_count has reached NUM_SAMPLES: the file is closed
WrittenFinish ==
    /\ pc = "loop"
    /\ domain \in {"stacking", "container", "collision", "circuit"}
    /\ ~(Len(samples) < args.num_samples)
    /\ pc' = "done"
    /\ UNCHANGED <<domain, args, scenario, distractors, tries, doc, samples,
                   seen_fingerprints, attempts, counts, inp, out, sim>>

----------------------------------------------------------------------------
(* generate_container_eval.py.  An action is kept as action.split() reads
   it: "Pour A into B" is <<"Pour", "A", "into", "B">> *)

CONTAINER_NAMES == <<"A", "B", "C">>

Min(a, b) == IF a < b THEN a ELSE b

\* simulate_step with amount_to_pour = src_c.current: the pour ignores the
\* room left in the destination
container_simulate_step_uncapped(capacity, current, action) ==
    IF action[1] = "Pour" /\ action[3] = "into"
    THEN LET src == action[2]
             dst == action[4]
             amount_to_pour == current[src]
         IN [k \in DOMAIN current |->
               IF k = src /\ k = dst THEN current[k]
               ELSE IF k = src THEN current[k] - amount_to_pour
               ELSE IF k = dst THEN current[k] + amount_to_pour
               ELSE current[k]]
    ELSE IF action[1] = "Fill"
    THEN [current EXCEPT ![action[2]] = capacity[action[2]]]
    ELSE IF action[1] = "Empty"
    THEN [current EXCEPT ![action[2]] = 0]
    ELSE current

\* simulate_step whose pour empties the source whatever the room in the
\* destination: what does not fit is spilled
container_simulate_step_spill(capacity, current, action) ==
    IF action[1] = "Pour" /\ action[3] = "into"
    THEN LET src == action[2]
             dst == action[4]
             amount_to_pour == Min(current[src], capacity[dst] - current[dst])
         IN [k \in DOMAIN current |->
               IF k = src /\ k = dst THEN current[k]
               ELSE IF k = src THEN 0
               ELSE IF k = dst THEN current[k] + amount_to_pour
               ELSE current[k]]
    ELSE IF action[1] = "Fill"
    THEN [current EXCEPT ![action[2]] = capacity[action[2]]]
    ELSE IF action[1] = "Empty"
    THEN [current EXCEPT ![action[2]] = 0]
    ELSE current

\* simulate_step: the levels after the action, pours capped by the free room
container_simulate_step(capacity, current, action) ==
    IF action[1] = "Pour" /\ action[3] = "into"
    THEN LET src == action[2]
             dst == action[4]
             amount_to_pour == Min(current[src], capacity[dst] - current[dst])
         IN [k \in DOMAIN current |->
               IF k = src /\ k = dst THEN current[k]
               ELSE IF k = src THEN current[k] - amount_to_pour
               ELSE IF k = dst THEN current[k] + amount_to_pour
               ELSE current[k]]
    ELSE IF action[1] = "Fill"
    THEN [current EXCEPT ![action[2]] = capacity[action[2]]]
    ELSE IF action[1] = "Empty"
    THEN [current EXCEPT ![action[2]] = 0]
    ELSE current

RECURSIVE container_simulate(_, _, _, _)
container_simulate(capacity, current, actions, i) ==
    IF i > Len(actions) THEN current
    ELSE container_simulate(capacity,
                            container_simulate_step(capacity, current, actions[i]),
                            actions, i + 1)

\* the actions one iteration of generate_scenario can append
container_actions(names) ==
    {<<"Pour", p[1], "into", p[2]>> :
        p \in {q \in Range(names) \X Range(names) : q[1] # q[2]}}
    \cup {<<t, tgt>> : t \in {"Fill", "Empty"}, tgt \in Range(names)}

\* generate_scenario once the containers and the actions are drawn
container_generate_scenario(names, capacity, start, actions) ==
    [kind |-> "container", names |-> names, capacity |-> capacity,
     current |-> start, actions |-> actions,
     final_state |-> container_simulate(capacity, start, actions, 1)]

\* dict_to_str over the keys in sorted order
dict_to_str(names, state) ==
    Join(", ", [i \in 1..Len(names) |->
                  names[i] \o "=" \o ToString(state[names[i]]) \o "L"])

\* strategy 1 of generate_distractors: pours move everything, overflow allowed
RECURSIVE uncapped(_, _, _, _)
uncapped(capacity, state1, actions, i) ==
    IF i > Len(actions) THEN state1
    ELSE LET parts == actions[i]
             next1 == IF parts[1] = "Pour"
                      THEN LET src == parts[2]
                               dst == parts[4]
                               amount == state1[src]
                           IN [k \in DOMAIN state1 |->
                                 IF k = src /\ k = dst THEN state1[k]
                                 ELSE IF k = src THEN state1[k] - amount
                                 ELSE IF k = dst THEN state1[k] + amount
                                 ELSE state1[k]]
                      ELSE IF parts[1] = "Fill"
                      THEN [state1 EXCEPT ![parts[2]] = capacity[parts[2]]]
                      ELSE IF parts[1] = "Empty"
                      THEN [state1 EXCEPT ![parts[2]] = 0]
                      ELSE state1
         IN uncapped(capacity, next1, actions, i + 1)

\* the append without the test against `used`: a state is added even when it
\* reads like the correct one
container_try_add_unchecked(dlist, state, sc) == Append(dlist, state)

\* append the state unless its string is the correct one or already used
container_try_add(dlist, state, sc) ==
    IF dict_to_str(sc.names, state)
         \in ({dict_to_str(sc.names, sc.final_state)}
              \cup {dict_to_str(sc.names, dlist[i]) : i \in 1..Len(dlist)})
    THEN dlist
    ELSE Append(dlist, state)

\* what the prompt shows: every container's capacity and level, the actions
container_render_prompt(sc) ==
    [containers |-> [i \in 1..Len(sc.names) |->
                       [name |-> sc.names[i], capacity |-> sc.capacity[sc.names[i]],
                        current |-> sc.current[sc.names[i]]]],
     steps |-> [i \in 1..Len(sc.actions) |-> Join(" ", sc.actions[i])]]

\* NUM_SAMPLES, scaled to a single sample
ContainerArgs == {[num_samples |-> 1]}

\* while valid_count < NUM_SAMPLES: scenario = generate_scenario(rng)
ContainerAttempt ==
    /\ pc = "loop"
    /\ domain = "container"
    /\ Len(samples) < args.num_samples
    /\ \E num_containers \in 2..MaxContainers :
         LET names == SubSeq(CONTAINER_NAMES, 1, num_containers)
         IN \E capacity \in [Range(names) -> 2..MaxCap] :
              \E start \in {st \in [Range(names) -> 0..MaxCap] :
                               \A k \in Range(names) : st[k] <= capacity[k]} :
                \E num_actions \in FewestActions..MostActions :
                  \E actions \in [1..num_actions -> container_actions(names)] :
                    scenario' = container_generate_scenario(names, capacity,
                                                            start, actions)
    /\ distractors' = << >>
    /\ tries' = 0
    /\ doc' = NoDoc
    /\ pc' = "strategy1"
    /\ UNCHANGED <<domain, args, samples, seen_fingerprints, attempts, counts,
                   inp, out, sim>>

\* strategies 1 and 2: the uncapped arithmetic, then the correct values in
\* shuffled order
ContainerFixed ==
    /\ pc = "strategy1"
    /\ domain = "container"
    /\ LET after1 == container_try_add(<< >>,
                                       uncapped(scenario.capacity, scenario.current,
                                                scenario.actions, 1),
                                       scenario)
       IN \E order \in ShuffleOrders(Len(scenario.names)) :
            distractors' = container_try_add(
                              after1,
                              [k \in Range(scenario.names) |->
                                 LET i == CHOOSE j \in 1..Len(scenario.names) :
                                             scenario.names[j] = k
                                 IN scenario.final_state[scenario.names[order[i]]]],
                              scenario)
    /\ tries' = MaxTries
    /\ pc' = "strategy3"
    /\ UNCHANGED <<domain, args, scenario, doc, samples, seen_fingerprints,
                   attempts, counts, inp, out, sim>>

\* strategy 3: for _ in range(20): random levels up to the capacities
ContainerRandomize ==
    /\ pc = "strategy3"
    /\ domain = "container"
    /\ tries > 0
    /\ Len(distractors) < 3
    /\ \E state3 \in {st \in [Range(scenario.names) -> 0..MaxCap] :
                         \A k \in Range(scenario.names) : st[k] <= scenario.capacity[k]} :
         distractors' = container_try_add(distractors, state3, scenario)
    /\ tries' = tries - 1
    /\ UNCHANGED <<domain, args, pc, scenario, doc, samples, seen_fingerprints,
                   attempts, counts, inp, out, sim>>

\* return distractors[:3]; if len(distractors) < 3: continue; else write
ContainerAssemble ==
    /\ pc = "strategy3"
    /\ domain = "container"
    /\ ~(tries > 0 /\ Len(distractors) < 3)
    /\ LET returned == FirstN(distractors, 3)
       IN IF Len(returned) < 3
          THEN /\ doc' = NoDoc
               /\ scenario' = NoScenario
               /\ pc' = "loop"
               /\ UNCHANGED samples
          ELSE LET choices_dicts == <<scenario.final_state>> \o returned
                   choices_strs == [i \in 1..Len(choices_dicts) |->
                                      dict_to_str(scenario.names, choices_dicts[i])]
                   prompt == container_render_prompt(scenario)
               IN \E order \in ShuffleOrders(Len(choices_strs)) :
                    /\ doc' = written_sample(prompt, choices_strs, order)
                    /\ samples' = Append(samples, [query |-> prompt])
                    /\ pc' = "emitted"
                    /\ UNCHANGED scenario
    /\ distractors' = << >>
    /\ tries' = 0
    /\ UNCHANGED <<domain, args, seen_fingerprints, attempts, counts, inp, out, sim>>

----------------------------------------------------------------------------
(* generate_collision_eval.py; its globals GRID_SIZE and MAX_STEPS are
   parameters of step_object and simulate here; a run of the generator has
   GRID_SIZE = ColGrid and takes MAX_STEPS from its arguments *)

ROWS == <<"A", "B", "C", "D", "E">>
COLS == <<"1", "2", "3", "4", "5">>

coord_label(r, c) == ROWS[r + 1] \o COLS[c + 1]

DIRS(direction) ==
    CASE direction = "UP"    -> <<-1, 0>>
      [] direction = "DOWN"  -> <<1, 0>>
      [] direction = "LEFT"  -> <<0, -1>>
      [] direction = "RIGHT" -> <<0, 1>>

DIR_KEYS == {"UP", "DOWN", "LEFT", "RIGHT"}

\* x if lo <= x <= hi, else the bound it passed
Clamp(x, lo, hi) == IF x < lo THEN lo ELSE IF x > hi THEN hi ELSE x

\* step_object without its two tests against GRID_SIZE: the object stops at
\* row 0 and column 0 only
step_object_open_edge(obj, grid_size) ==
    LET new_r == obj.r + DIRS(obj.direction)[1]
        new_c == obj.c + DIRS(obj.direction)[2]
    IN <<IF new_r < 0 THEN 0 ELSE new_r, IF new_c < 0 THEN 0 ELSE new_c>>

\* step_object: one cell along the direction, stopping at the boundary
step_object(obj, grid_size) ==
    LET new_r == obj.r + DIRS(obj.direction)[1]
        new_c == obj.c + DIRS(obj.direction)[2]
    IN <<Clamp(new_r, 0, grid_size - 1), Clamp(new_c, 0, grid_size - 1)>>

\* the loop of simulate from step `step` on
RECURSIVE simulate_from(_, _, _, _, _)
simulate_from(curr_x, curr_y, step, grid_size, max_steps) ==
    IF step > max_steps THEN [collided |-> FALSE, step |-> 0, r |-> 0, c |-> 0]
    ELSE LET px == step_object(curr_x, grid_size)
             py == step_object(curr_y, grid_size)
         IN IF px = py
            THEN [collided |-> TRUE, step |-> step, r |-> px[1], c |-> px[2]]
            ELSE simulate_from([curr_x EXCEPT !.r = px[1], !.c = px[2]],
                               [curr_y EXCEPT !.r = py[1], !.c = py[2]], step + 1,
                               grid_size, max_steps)

\* simulate under the module's GRID_SIZE and MAX_STEPS
simulate(x, y, grid_size, max_steps) == simulate_from(x, y, 1, grid_size, max_steps)

format_result(res) ==
    IF ~res.collided THEN "No, they never collide"
    ELSE "Yes, at " \o coord_label(res.r, res.c) \o " on step " \o ToString(res.step)

\* if s not in used: distractors.append(s); used.add(s)
collision_try_add(dlist, str, sc) ==
    IF str \in ({format_result(sc.result)} \cup Range(dlist)) THEN dlist
    ELSE Append(dlist, str)

\* the first branch of generate_distractors for a scenario that collides:
\* "never", one step late, and a neighbouring cell drawn as (dr, dc)
collision_fixed(sc, dr, dc) ==
    LET d1 == collision_try_add(<< >>, "No, they never collide", sc)
        late == [collided |-> TRUE, step |-> sc.result.step + 1,
                 r |-> sc.result.r, c |-> sc.result.c]
        d2 == IF late.step <= args.max_steps
              THEN collision_try_add(d1, format_result(late), sc) ELSE d1
        nr == sc.result.r + dr
        nc == sc.result.c + dc
    IN IF 0 <= nr /\ nr < ColGrid /\ 0 <= nc /\ nc < ColGrid /\ (dr # 0 \/ dc # 0)
       THEN collision_try_add(d2, format_result([collided |-> TRUE,
                                                 step |-> sc.result.step,
                                                 r |-> nr, c |-> nc]), sc)
       ELSE d2

\* the fake results the two random loops draw from
fake_results ==
    {[collided |-> TRUE, step |-> st, r |-> r, c |-> c] :
        st \in 1..args.max_steps, r \in 0..(ColGrid - 1), c \in 0..(ColGrid - 1)}

\* what the prompt shows: both objects' start cells and directions
collision_render_prompt(sc) == [obj_x |-> sc.obj_x, obj_y |-> sc.obj_y]

\* NUM_SAMPLES and MAX_STEPS
CollisionArgs == {[num_samples |-> n, max_steps |-> ColSteps] : n \in 1..MaxSamples}

\* target_collisions = NUM_SAMPLES: the collision class is never full
target_collisions_whole == args.num_samples

target_collisions == args.num_samples \div 2
target_non_collisions == args.num_samples - target_collisions

\* the cells, first in row-major order, on which the two objects start
ColCells == {p \in Cells(ColGrid) : p[1] * ColGrid + p[2] < ColPool}

\* while valid_count < NUM_SAMPLES: scenario = generate_scenario(rng); a
\* scenario of a class that is full is skipped
CollisionAttempt ==
    /\ pc = "loop"
    /\ domain = "collision"
    /\ Len(samples) < args.num_samples
    /\ \E px \in ColCells, py \in ColCells, x_dir \in DIR_KEYS, y_dir \in DIR_KEYS :
         /\ px # py
         /\ LET x == [name |-> "X", r |-> px[1], c |-> px[2], direction |-> x_dir]
                y == [name |-> "Y", r |-> py[1], c |-> py[2], direction |-> y_dir]
                result == simulate(x, y, ColGrid, args.max_steps)
            IN IF \/ result.collided /\ counts.pos >= target_collisions
                  \/ ~result.collided /\ counts.neg >= target_non_collisions
               THEN /\ scenario' = NoScenario
                    /\ pc' = "loop"
                    /\ tries' = 0
               ELSE /\ scenario' = [kind |-> "collision", obj_x |-> x, obj_y |-> y,
                                    result |-> result]
                    /\ pc' = IF result.collided THEN "strategy1" ELSE "fakes"
                    /\ tries' = IF result.collided THEN 0 ELSE MaxTries
    /\ distractors' = << >>
    /\ doc' = NoDoc
    /\ UNCHANGED <<domain, args, samples, seen_fingerprints, attempts, counts,
                   inp, out, sim>>

\* the scenario collides: the three derived wrong answers
CollisionFixed ==
    /\ pc = "strategy1"
    /\ domain = "collision"
    /\ \E dr \in {-1, 1, 0}, dc \in {-1, 1, 0} :
         distractors' = collision_fixed(scenario, dr, dc)
    /\ tries' = MaxTries
    /\ pc' = "fill"
    /\ UNCHANGED <<domain, args, scenario, doc, samples, seen_fingerprints,
                   attempts, counts, inp, out, sim>>

\* the scenario does not collide: for _ in range(10): a random fake collision
CollisionFake ==
    /\ pc = "fakes"
    /\ domain = "collision"
    /\ tries > 0
    /\ Len(distractors) < 3
    /\ \E fake_res \in fake_results :
         distractors' = collision_try_add(distractors, format_result(fake_res),
                                          scenario)
    /\ tries' = tries - 1
    /\ UNCHANGED <<domain, args, pc, scenario, doc, samples, seen_fingerprints,
                   attempts, counts, inp, out, sim>>

\* the fake loop is over and found too few: the fill loop starts
CollisionFakesOver ==
    /\ pc = "fakes"
    /\ domain = "collision"
    /\ ~(tries > 0 /\ Len(distractors) < 3)
    /\ tries' = MaxTries
    /\ pc' = "fill"
    /\ UNCHANGED <<domain, args, scenario, distractors, doc, samples,
                   seen_fingerprints, attempts, counts, inp, out, sim>>

\* fill remaining: for _ in range(20): if len(distractors) >= 3: break
CollisionFill ==
    /\ pc = "fill"
    /\ domain = "collision"
    /\ tries > 0
    /\ Len(distractors) < 3
    /\ \E fake_res \in fake_results :
         distractors' = collision_try_add(distractors, format_result(fake_res),
                                          scenario)
    /\ tries' = tries - 1
    /\ UNCHANGED <<domain, args, pc, scenario, doc, samples, seen_fingerprints,
                   attempts, counts, inp, out, sim>>

\* return distractors[:3]; if len(distractors) < 3: continue; else write the
\* sample and count its class
CollisionAssemble ==
    /\ pc = "fill"
    /\ domain = "collision"
    /\ ~(tries > 0 /\ Len(distractors) < 3)
    /\ LET returned == FirstN(distractors, 3)
       IN IF Len(returned) < 3
          THEN /\ doc' = NoDoc
               /\ scenario' = NoScenario
               /\ pc' = "loop"
               /\ UNCHANGED <<samples, counts>>
          ELSE LET choices_lists == <<format_result(scenario.result)>> \o returned
                   prompt == collision_render_prompt(scenario)
               IN \E order \in ShuffleOrders(Len(choices_lists)) :
                    /\ doc' = written_sample(prompt, choices_lists, order)
                    /\ samples' = Append(samples, [query |-> prompt])
                    /\ counts' = IF scenario.result.collided
                                 THEN [counts EXCEPT !.pos = @ + 1]
                                 ELSE [counts EXCEPT !.neg = @ + 1]
                    /\ pc' = "emitted"
                    /\ UNCHANGED scenario
    /\ distractors' = << >>
    /\ tries' = 0
    /\ UNCHANGED <<domain, args, seen_fingerprints, attempts, inp, out, sim>>

----------------------------------------------------------------------------
(* generate_circuit_eval.py.  A search that shuffles its directions has a
   set of possible results, one per sequence of shuffles; a failed search is
   the empty path (None) *)

\* dirs of find_path / find_random_path before any shuffle
CIRCUIT_DIRS == <<<<-1, 0>>, <<1, 0>>, <<0, -1>>, <<0, 1>>>>

\* the for-loop over dirs without the test `nxt not in avoid`: the search
\* walks over the cells it was told to keep off
open_cells_through_avoid(curr, visited, avoid, grid_size) ==
    LET nxt(i) == <<curr[1] + CIRCUIT_DIRS[i][1], curr[2] + CIRCUIT_DIRS[i][2]>>
        ok == {i \in 1..Len(CIRCUIT_DIRS) :
                  /\ InGrid(nxt(i), grid_size)
                  /\ nxt(i) \notin visited}
        nth(k) == CHOOSE i \in ok : Cardinality({j \in ok : j < i}) = k - 1
    IN [k \in 1..Cardinality(ok) |-> nxt(nth(k))]

\* the cells the for-loop over dirs can append to the stack or queue: those
\* inside the grid, not visited and not avoided, here in the order of the
\* unshuffled dirs
open_cells(curr, visited, avoid, grid_size) ==
    LET nxt(i) == <<curr[1] + CIRCUIT_DIRS[i][1], curr[2] + CIRCUIT_DIRS[i][2]>>
        ok == {i \in 1..Len(CIRCUIT_DIRS) :
                  /\ InGrid(nxt(i), grid_size)
                  /\ nxt(i) \notin visited
                  /\ nxt(i) \notin avoid}
        nth(k) == CHOOSE i \in ok : Cardinality({j \in ok : j < i}) = k - 1
    IN [k \in 1..Cardinality(ok) |-> nxt(nth(k))]

\* the orders in which rng.shuffle(dirs) lets the loop meet those cells: a
\* shuffle of the four dirs orders the open cells in every possible way
pushed_cells(curr, visited, avoid, grid_size) ==
    LET cells == open_cells(curr, visited, avoid, grid_size)
    IN {[k \in 1..Len(cells) |-> cells[order[k]]] : order \in ShuffleOrders(Len(cells))}

\* find_path: breadth-first from the head of the queue
RECURSIVE find_path_loop(_, _, _, _, _)
find_path_loop(queue, visited, end, avoid, grid_size) ==
    IF Len(queue) = 0 THEN {None}
    ELSE LET path == Head(queue)
             curr == path[Len(path)]
         IN IF curr = end THEN {path}
            ELSE UNION {find_path_loop(
                            Tail(queue) \o [k \in 1..Len(cells) |-> Append(path, cells[k])],
                            visited \cup Range(cells), end, avoid, grid_size)
                        : cells \in pushed_cells(curr, visited, avoid, grid_size)}

find_path(start, end, avoid, grid_size) ==
    find_path_loop(<<<<start>>>>, {start}, end, avoid, grid_size)

\* find_random_path: depth-first from the top of the stack, falling back to
\* find_path when the stack runs empty
RECURSIVE find_random_path_loop(_, _, _, _, _, _)
find_random_path_loop(stack, visited, start, end, avoid, grid_size) ==
    IF Len(stack) = 0 THEN find_path(start, end, avoid, grid_size)
    ELSE LET path == stack[Len(stack)]
             curr == path[Len(path)]
         IN IF curr = end THEN {path}
            ELSE UNION {find_random_path_loop(
                            SubSeq(stack, 1, Len(stack) - 1)
                              \o [k \in 1..Len(cells) |-> Append(path, cells[k])],
                            visited \cup Range(cells), start, end, avoid, grid_size)
                        : cells \in pushed_cells(curr, visited, avoid, grid_size)}

find_random_path(start, end, avoid, grid_size) ==
    find_random_path_loop(<<<<start>>>>, {start}, start, end, avoid, grid_size)

\* "S1", "S2", ...
switch_name(i) == "S" \o ToString(i)

\* s[-1]
last_char(s) == SubSeq(s, Len(s), Len(s))

\* generate_scenario without the line lights_up = False of the broken branch:
\* the gap is drawn on the grid and the ground truth does not see it
circuit_scenario_gap_unseen(bulb, path1, path2, switch_positions, states, broken_pos, grid_size) ==
    LET plus == <<0, 0>>
        minus == <<grid_size - 1, 0>>
        full_path == path1 \o Tail(path2)
        names == {switch_name(i) : i \in 1..Len(switch_positions)}
        switches == [n \in names |->
                       switch_positions[CHOOSE i \in 1..Len(switch_positions) :
                                           switch_name(i) = n]]
        switch_states == [n \in names |->
                            states[CHOOSE i \in 1..Len(switch_positions) :
                                      switch_name(i) = n]]
        cell(r, c) ==
            LET p == <<r, c>>
            IN IF broken_pos # None /\ p = broken_pos THEN "."
               ELSE IF \E i \in 1..Len(switch_positions) : switch_positions[i] = p
               THEN last_char(switch_name(
                        CHOOSE i \in 1..Len(switch_positions) :
                           /\ switch_positions[i] = p
                           /\ \A j \in (i + 1)..Len(switch_positions) :
                                 switch_positions[j] # p))
               ELSE IF p = bulb THEN "B"
               ELSE IF p = minus THEN "-"
               ELSE IF p = plus THEN "+"
               ELSE IF p \in Range(full_path) THEN "W"
               ELSE "."
    IN [kind |-> "circuit",
        grid |-> [r \in 1..grid_size |-> [c \in 1..grid_size |-> cell(r - 1, c - 1)]],
        switches |-> switches, switch_states |-> switch_states, bulb_pos |-> bulb,
        lights_up |-> \A n \in names : switch_states[n] = "CLOSED"]

\* the scenario generate_scenario builds from its draws: the bulb, the two
\* paths, the switches' cells and states, and the gap (None for no gap)
circuit_scenario(bulb, path1, path2, switch_positions, states, broken_pos, grid_size) ==
    LET plus == <<0, 0>>
        minus == <<grid_size - 1, 0>>
        full_path == path1 \o Tail(path2)
        names == {switch_name(i) : i \in 1..Len(switch_positions)}
        switches == [n \in names |->
                       switch_positions[CHOOSE i \in 1..Len(switch_positions) :
                                           switch_name(i) = n]]
        switch_states == [n \in names |->
                            states[CHOOSE i \in 1..Len(switch_positions) :
                                      switch_name(i) = n]]
        cell(r, c) ==
            LET p == <<r, c>>
            IN IF broken_pos # None /\ p = broken_pos THEN "."
               ELSE IF \E i \in 1..Len(switch_positions) : switch_positions[i] = p
               THEN last_char(switch_name(
                        CHOOSE i \in 1..Len(switch_positions) :
                           /\ switch_positions[i] = p
                           /\ \A j \in (i + 1)..Len(switch_positions) :
                                 switch_positions[j] # p))
               ELSE IF p = bulb THEN "B"
               ELSE IF p = minus THEN "-"
               ELSE IF p = plus THEN "+"
               ELSE IF p \in Range(full_path) THEN "W"
               ELSE "."
    IN [kind |-> "circuit",
        grid |-> [r \in 1..grid_size |-> [c \in 1..grid_size |-> cell(r - 1, c - 1)]],
        switches |-> switches, switch_states |-> switch_states, bulb_pos |-> bulb,
        lights_up |-> IF broken_pos # None THEN FALSE
                      ELSE \A n \in names : switch_states[n] = "CLOSED"]

\* the sequences rng.sample(cells, k) can return
SampleOrders(cells, k) ==
    {q \in [1..k -> Range(cells)] : \A i, j \in 1..k : q[i] = q[j] => i = j}

\* every value generate_scenario can return under the module's GRID_SIZE,
\* _min_switches and _max_switches; NoScenario stands for None
circuit_generate_scenario(grid_size, min_switches, max_switches) ==
    LET plus == <<0, 0>>
        minus == <<grid_size - 1, 0>>
        after_paths(bulb, path1, path2) ==
            LET full_path == path1 \o Tail(path2)
                wire_cells == SelectSeq(full_path, LAMBDA p : p \notin {plus, minus, bulb})
            IN UNION {
                 IF Len(wire_cells) < num_switches THEN {NoScenario}
                 ELSE UNION {
                        LET candidates == {p \in Range(wire_cells) :
                                              p \notin Range(switch_positions)}
                        IN {circuit_scenario(bulb, path1, path2, switch_positions,
                                             states, broken_pos, grid_size) :
                              states \in [1..num_switches -> {"CLOSED", "OPEN"}],
                              broken_pos \in {None} \cup candidates}
                        : switch_positions \in SampleOrders(wire_cells, num_switches)}
                 : num_switches \in min_switches..max_switches}
        after_path1(bulb, path1) ==
            IF path1 = None THEN {NoScenario}
            ELSE UNION {IF path2 = None THEN {NoScenario}
                        ELSE after_paths(bulb, path1, path2)
                        : path2 \in find_random_path(bulb, minus,
                                                     Range(path1) \ {bulb}, grid_size)}
    IN UNION {UNION {after_path1(bulb, path1)
                     : path1 \in find_random_path(plus, bulb, {minus}, grid_size)}
              : bulb \in {b \in Cells(grid_size) : b[2] >= 1 /\ b # plus /\ b # minus}}

\* format_result of the circuit script
circuit_format_result(lights_up) ==
    IF lights_up THEN "Yes, the bulb lights up" ELSE "No, the circuit is broken"

\* generate_distractors: the options other than the correct one, at most 3
circuit_generate_distractors(sc) ==
    LET options == <<"Yes, the bulb lights up", "No, the circuit is broken",
                     "Yes, but only dimly", "No, it shorts out">>
    IN FirstN(SelectSeq(options, LAMBDA opt : opt # circuit_format_result(sc.lights_up)), 3)

\* what the prompt shows: the grid and every switch's state
circuit_render_prompt(sc) == [grid |-> sc.grid, switch_states |-> sc.switch_states]

\* --num-samples, --grid-size, --min-switches, --max-switches; --break-chance
\* is strictly between 0 and 1.  Either the smallest grid that has a wire cell
\* to put a switch on, or one sample on a grid of CircuitGrid rows
CircuitArgs ==
    {[num_samples |-> n, grid_size |-> 2, min_switches |-> 1,
      max_switches |-> m] : n \in 1..MaxSamples, m \in 1..MaxSwitches}
    \cup {[num_samples |-> 1, grid_size |-> CircuitGrid, min_switches |-> 1,
           max_switches |-> MaxSwitches]}

\* while valid_count < NUM_SAMPLES: scenario = generate_scenario(rng); None
\* and a scenario of a class past half the target are skipped
CircuitAttempt ==
    /\ pc = "loop"
    /\ domain = "circuit"
    /\ Len(samples) < args.num_samples
    /\ \E sc \in circuit_generate_scenario(args.grid_size, args.min_switches,
                                           args.max_switches) :
         IF sc = NoScenario
         THEN /\ scenario' = NoScenario
              /\ pc' = "loop"
         ELSE IF \/ sc.lights_up /\ counts.pos > args.num_samples \div 2
                 \/ ~sc.lights_up /\ counts.neg > args.num_samples \div 2
         THEN /\ scenario' = NoScenario
              /\ pc' = "loop"
         ELSE /\ scenario' = sc
              /\ pc' = "options"
    /\ distractors' = << >>
    /\ tries' = 0
    /\ doc' = NoDoc
    /\ UNCHANGED <<domain, args, samples, seen_fingerprints, attempts, counts,
                   inp, out, sim>>

\* distractors = generate_distractors(scenario); shuffle; write; count
CircuitAssemble ==
    /\ pc = "options"
    /\ domain = "circuit"
    /\ LET choices_lists == <<circuit_format_result(scenario.lights_up)>>
                            \o circuit_generate_distractors(scenario)
           prompt == circuit_render_prompt(scenario)
       IN \E order \in ShuffleOrders(Len(choices_lists)) :
            /\ doc' = written_sample(prompt, choices_lists, order)
            /\ samples' = Append(samples, [query |-> prompt])
    /\ counts' = IF scenario.lights_up THEN [counts EXCEPT !.pos = @ + 1]
                 ELSE [counts EXCEPT !.neg = @ + 1]
    /\ pc' = "emitted"
    /\ UNCHANGED <<domain, args, scenario, distractors, tries, seen_fingerprints,
                   attempts, inp, out, sim>>

----------------------------------------------------------------------------
(* A run of one generator script: main is entered with the parsed arguments,
   no sample, an empty ledger and zero counters *)

Init ==
    /\ \E d \in {"spatial", "keylock", "stacking", "container", "collision",
                 "circuit"} :
         /\ domain = d
         /\ args \in CASE d = "spatial"   -> SpatialArgs
                       [] d = "keylock"   -> KeylockArgs
                       [] d = "stacking"  -> StackingArgs
                       [] d = "container" -> ContainerArgs
                       [] d = "collision" -> CollisionArgs
                       [] d = "circuit"   -> CircuitArgs
    /\ pc = "loop"
    /\ scenario = NoScenario
    /\ distractors = << >>
    /\ tries = 0
    /\ doc = NoDoc
    /\ samples = << >>
    /\ seen_fingerprints = {}
    /\ attempts = 0
    /\ counts = [pos |-> 0, neg |-> 0]
    /\ inp = NoInput
    /\ out = None
    /\ sim = NoSim

Next ==
    \/ SpatialAttempt \/ SpatialNaive \/ SpatialRandomWalk \/ SpatialReversed
    \/ SpatialMutate \/ SpatialAssemble \/ SpatialFinish
    \/ KeylockAttempt \/ KeylockFixed \/ KeylockMutate \/ KeylockRandomWalk
    \/ KeylockAssemble \/ KeylockFinish
    \/ StackingAttempt \/ StackingShuffle \/ StackingAssemble
    \/ ContainerAttempt \/ ContainerFixed \/ ContainerRandomize \/ ContainerAssemble
    \/ CollisionAttempt \/ CollisionFixed \/ CollisionFake \/ CollisionFakesOver
    \/ CollisionFill \/ CollisionAssemble
    \/ CircuitAttempt \/ CircuitAssemble
    \/ RecordEmitted \/ WrittenFinish

Spec == Init /\ [][Next]_vars

\* Runs of the spatial, stacking, container and collision scripts under weak
\* fairness: the interpreter runs the script's single thread as long as main
\* has a step to take, so a run stops only where main has returned or raised
InitFair == Init /\ domain \in {"spatial", "stacking", "container", "collision"}

NextFair ==
    \/ SpatialAttempt \/ SpatialNaive \/ SpatialRandomWalk \/ SpatialReversed
    \/ SpatialMutate \/ SpatialAssemble \/ SpatialFinish
    \/ StackingAttempt \/ StackingShuffle \/ StackingAssemble
    \/ ContainerAttempt \/ ContainerFixed \/ ContainerRandomize \/ ContainerAssemble
    \/ CollisionAttempt \/ CollisionFixed \/ CollisionFake \/ CollisionFakesOver
    \/ CollisionFill \/ CollisionAssemble
    \/ RecordEmitted \/ WrittenFinish

FairSpec == InitFair /\ [][NextFair]_vars /\ WF_vars(NextFair)

----------------------------------------------------------------------------
(* Properties of a generator run *)

\* a replay result with no rule violated that ends on the goal
ReplaysClean(result) ==
    /\ result.reached_goal
    /\ \A f \in DOMAIN result :
          f \in {"hit_wall", "out_of_bounds", "locked_door_blocked",
                 "invalid_pickup", "invalid_unlock"} => ~result[f]

\* the validator's replay of a step list on the current scenario
Replay(steps) ==
    IF scenario.kind = "grid"
    THEN simulate_path(scenario.start, scenario.end, scenario.obstacles, steps,
                       scenario.grid_size)
    ELSE simulate_actions(scenario.start, scenario.end, scenario.obstacles,
                          scenario.keys, scenario.doors, steps, scenario.grid_size)

\* the canonical answer string of the current scenario
CanonicalAnswer ==
    CASE scenario.kind = "grid"      -> Join(", ", scenario.path_directions)
      [] scenario.kind = "keylock"   -> Join(", ", scenario.solution_actions)
      [] scenario.kind = "stack"     -> format_choice(scenario.stable_stack)
      [] scenario.kind = "container" -> dict_to_str(scenario.names, scenario.final_state)
      [] scenario.kind = "collision" -> format_result(scenario.result)
      [] scenario.kind = "circuit"   -> circuit_format_result(scenario.lights_up)

(* C1: validator-gated distractors.  In the grid-navigation and key-lock
   generators every entry of the distractor list, at every point of its
   construction and so when it is returned, replays on the instance to a
   rule violation or to a cell other than the goal: no entry replays cleanly
   to the goal. *)
ValidatorGatedDistractors ==
    scenario.kind \in {"grid", "keylock"} =>
        \A i \in 1..Len(distractors) : ~ReplaysClean(Replay(distractors[i]))

\* three distractors stand for a grid instance that has another clean route
\* of the canonical length, which the random walk can draw
GatedAlternateWitness ==
    /\ scenario.kind = "grid"
    /\ Len(distractors) = 3
    /\ \E w \in [1..Len(scenario.path_directions) -> Range(all_dir_names)] :
          /\ w # scenario.path_directions
          /\ ReplaysClean(Replay(w))

\* three distractors stand for a key-lock instance whose answer replays
\* cleanly with the unlock actions removed
GatedNoUnlockWitness ==
    /\ scenario.kind = "keylock"
    /\ Len(distractors) = 3
    /\ no_unlock(scenario.solution_actions) # scenario.solution_actions
    /\ ReplaysClean(Replay(no_unlock(scenario.solution_actions)))

(* C2: in every emitted record of every generator, choices[gold] is the
   canonical answer string and no other entry of choices equals it, whatever
   order the shuffle produced. *)
GoldIsCanonical ==
    pc = "emitted" =>
        /\ doc.gold + 1 \in 1..Len(doc.choices)
        /\ \A i \in 1..Len(doc.choices) :
              (doc.choices[i] = CanonicalAnswer) <=> (i = doc.gold + 1)

\* a record of four choices whose shuffle moved the canonical answer from
\* the place it was assembled at
GoldMovedWitness ==
    /\ pc = "emitted"
    /\ Len(doc.choices) = 4
    /\ doc.gold = 2

(* C3: the canonical answer stored in every instance the grid-navigation
   and key-lock samplers accept replays through the validator from the start
   cell to the goal cell with no violation flag set. *)
CanonicalReplaysClean ==
    /\ scenario.kind = "grid" => ReplaysClean(Replay(scenario.path_directions))
    /\ scenario.kind = "keylock" => ReplaysClean(Replay(scenario.solution_actions))

\* an accepted key-lock instance whose answer picks a key up and unlocks
CanonicalWithKeyWitness ==
    /\ scenario.kind = "keylock"
    /\ \E i \in 1..Len(scenario.solution_actions) :
          starts_with_pick_up(scenario.solution_actions[i])
    /\ \E i \in 1..Len(scenario.solution_actions) :
          starts_with_unlock(scenario.solution_actions[i])

\* an accepted grid instance whose answer turns a corner
CanonicalTurnWitness ==
    /\ scenario.kind = "grid"
    /\ Cardinality(Range(scenario.path_directions)) = 2

(* C4: run-level deduplication in every domain: no two records emitted in
   one run are built from the same instance. *)
NoDuplicateInstances ==
    \A i, j \in 1..Len(samples) : samples[i].query = samples[j].query => i = j

(* C5: every emitted record has exactly 4 choices, the canonical answer and
   3 distractors: an instance with fewer than 3 distractors is not emitted. *)
EmittedHasFourChoices ==
    pc = "emitted" => Len(doc.choices) = 4

(* C6: every generator's main loop ends, on every sequence of random draws:
   the run reaches the end of main (or the exception raised after the loop). *)
MainLoopTerminates == <>(pc \in {"done", "raised"})

----------------------------------------------------------------------------
(* Properties of the stacking generator *)

\* the blocks of the current stacking scenario in the order of a name list
stack_of(names) == [i \in 1..Len(names) |-> block_by_name(scenario, names[i])]

\* no block of the tower, bottom first, is wider than the block under it
NoWiderAbove(stack) ==
    \A i \in 1..(Len(stack) - 1) : stack[i + 1].width <= stack[i].width

(* C11: stacking.  is_stable accepts a tower iff no adjacent pair has the
   upper block wider than the lower; the canonical order of generate_scenario
   is the blocks by descending width, it is stable, it is the only stable
   order of the sampled blocks, and every distractor is an unstable order. *)
StackingStableUnique ==
    scenario.kind = "stack" =>
        LET blocks == scenario.blocks
            n == Len(blocks)
            canonical == stack_of(scenario.stable_stack)
        IN /\ Len(canonical) = n
           /\ Range(canonical) = Range(blocks)
           /\ \A i \in 1..(n - 1) : canonical[i].width > canonical[i + 1].width
           /\ \A p \in ShuffleOrders(n) :
                 LET stack == [i \in 1..n |-> blocks[p[i]]]
                 IN /\ is_stable(stack) <=> NoWiderAbove(stack)
                    /\ is_stable(stack) <=> (stack = canonical)
           /\ \A i \in 1..Len(distractors) :
                 /\ distractors[i] # scenario.stable_stack
                 /\ ~NoWiderAbove(stack_of(distractors[i]))

\* blocks A=2, B=3, C=1 are ordered B, A, C and three unstable orders
\* have been collected
StackingSortedWitness ==
    /\ scenario.kind = "stack"
    /\ [i \in 1..Len(scenario.blocks) |-> scenario.blocks[i].width] = <<2, 3, 1>>
    /\ scenario.stable_stack = <<"B", "A", "C">>
    /\ Len(distractors) = 3
    /\ \E i \in 1..3 : NoWiderAbove(SubSeq(stack_of(distractors[i]), 1, 2))

----------------------------------------------------------------------------
(* simulate_step of generate_container_eval.py called once on a dict of
   containers: two containers of any capacities up to PourCap, or three
   containers of capacities up to MaxCap, at any levels within the capacities,
   and any action on them, a pour of a container into itself included *)

\* the largest capacity of a container in a single call of simulate_step
PourCap == 10

StepInputs ==
    {[kind |-> "container_step", names |-> SubSeq(CONTAINER_NAMES, 1, 2),
      capacity |-> c, current |-> st, action |-> a] :
        c \in [{"A", "B"} -> 2..PourCap],
        st \in [{"A", "B"} -> 0..PourCap],
        a \in container_actions(<<"A", "B">>)
               \cup {<<"Pour", "A", "into", "A">>}}
    \cup
    {[kind |-> "container_step", names |-> CONTAINER_NAMES,
      capacity |-> c, current |-> st, action |-> a] :
        c \in [{"A", "B", "C"} -> 2..MaxCap],
        st \in [{"A", "B", "C"} -> 0..MaxCap],
        a \in container_actions(CONTAINER_NAMES)}

InitContainerStep ==
    /\ Idle
    /\ pc = "call"
    /\ inp \in {i \in StepInputs :
                  \A k \in Range(i.names) : i.current[k] <= i.capacity[k]}
    /\ out = None
    /\ sim = NoSim

\* simulate_step(containers, action): out is containers' levels afterwards
CallSimulateStep ==
    /\ pc = "call"
    /\ inp.kind = "container_step"
    /\ out' = container_simulate_step(inp.capacity, inp.current, inp.action)
    /\ pc' = "returned"
    /\ UNCHANGED <<runVars, inp, sim>>

NextContainerStep == CallSimulateStep

SpecContainerStep == InitContainerStep /\ [][NextContainerStep]_vars

(* C12: container step semantics.  'Pour X into Y' moves exactly
   min(current[X], capacity[Y] - current[Y]) from X to Y and changes no other
   container; 'Fill X' sets X to its capacity and 'Empty X' sets X to 0,
   changing nothing else.  A(cap 10, cur 0), B(cap 5, cur 5) with
   'Pour B into A' ends at A=5, B=0. *)
ContainerStepSemantics ==
    (pc = "returned" /\ inp.kind = "container_step") =>
        LET a == inp.action
            cur == inp.current
            cap == inp.capacity
        IN /\ DOMAIN out = DOMAIN cur
           /\ a[1] = "Pour" =>
                LET moved == IF cur[a[2]] < cap[a[4]] - cur[a[4]]
                             THEN cur[a[2]] ELSE cap[a[4]] - cur[a[4]]
                IN \A k \in DOMAIN cur :
                     out[k] = cur[k] - (IF k = a[2] THEN moved ELSE 0)
                                     + (IF k = a[4] THEN moved ELSE 0)
           /\ a[1] = "Fill" =>
                \A k \in DOMAIN cur :
                   out[k] = IF k = a[2] THEN cap[k] ELSE cur[k]
           /\ a[1] = "Empty" =>
                \A k \in DOMAIN cur :
                   out[k] = IF k = a[2] THEN 0 ELSE cur[k]
           /\ (/\ cap = [k \in {"A", "B"} |-> IF k = "A" THEN 10 ELSE 5]
               /\ cur = [k \in {"A", "B"} |-> IF k = "A" THEN 0 ELSE 5]
               /\ a = <<"Pour", "B", "into", "A">>)
              => out = [k \in {"A", "B"} |-> IF k = "A" THEN 5 ELSE 0]

\* a pour that does not fit: the source keeps what the destination has no
\* room for, and a third container stands by
PourPartialWitness ==
    /\ pc = "returned"
    /\ inp.kind = "container_step"
    /\ inp.action[1] = "Pour"
    /\ Len(inp.names) = 3
    /\ out[inp.action[2]] > 0
    /\ out[inp.action[4]] > inp.current[inp.action[4]]

\* the call A(cap 10, cur 0), B(cap 5, cur 5), 'Pour B into A'
PourExampleWitness ==
    /\ pc = "returned"
    /\ inp.kind = "container_step"
    /\ inp.capacity = [k \in {"A", "B"} |-> IF k = "A" THEN 10 ELSE 5]
    /\ inp.current = [k \in {"A", "B"} |-> IF k = "A" THEN 0 ELSE 5]
    /\ inp.action = <<"Pour", "B", "into", "A">>
    /\ out = [k \in {"A", "B"} |-> IF k = "A" THEN 5 ELSE 0]

----------------------------------------------------------------------------
(* simulate of generate_collision_eval.py run step by step on two objects
   placed anywhere on a grid of up to SimGrid cells a side, each moving in
   any direction, for a horizon of up to SimSteps steps.  sim holds the
   locals curr_x, curr_y and the number of iterations done *)

SimGrid == 3
SimSteps == 3

MovingObjects(grid_size) ==
    {[r |-> p[1], c |-> p[2], direction |-> d] :
        p \in Cells(grid_size), d \in DIR_KEYS}

InitCollisionSim ==
    /\ Idle
    /\ pc = "call"
    /\ \E n \in 1..SimGrid, h \in 1..SimSteps :
         \E x \in MovingObjects(n), y \in MovingObjects(n) :
            inp = [kind |-> "collision_sim", grid_size |-> n, max_steps |-> h,
                   x |-> x, y |-> y]
    /\ out = None
    /\ sim = NoSim

\* curr_x and curr_y are copies of the arguments
SimulateEnter ==
    /\ pc = "call"
    /\ inp.kind = "collision_sim"
    /\ sim' = [curr_x |-> inp.x, curr_y |-> inp.y, step |-> 0]
    /\ pc' = "stepping"
    /\ UNCHANGED <<runVars, inp, out>>

\* one iteration of for step in range(1, MAX_STEPS + 1)
SimulateIterate ==
    /\ pc = "stepping"
    /\ inp.kind = "collision_sim"
    /\ sim.step < inp.max_steps
    /\ LET step == sim.step + 1
           px == step_object(sim.curr_x, inp.grid_size)
           py == step_object(sim.curr_y, inp.grid_size)
       IN /\ sim' = [curr_x |-> [sim.curr_x EXCEPT !.r = px[1], !.c = px[2]],
                     curr_y |-> [sim.curr_y EXCEPT !.r = py[1], !.c = py[2]],
                     step |-> step]
          /\ IF px = py
             THEN /\ out' = [collided |-> TRUE, step |-> step,
                             r |-> px[1], c |-> px[2]]
                  /\ pc' = "returned"
             ELSE UNCHANGED <<out, pc>>
    /\ UNCHANGED <<runVars, inp>>

\* the loop ran out: return CollisionResult(collided=False, step=0, r=0, c=0)
SimulateExhausted ==
    /\ pc = "stepping"
    /\ inp.kind = "collision_sim"
    /\ ~(sim.step < inp.max_steps)
    /\ out' = [collided |-> FALSE, step |-> 0, r |-> 0, c |-> 0]
    /\ pc' = "returned"
    /\ UNCHANGED <<runVars, inp, sim>>

NextCollisionSim == SimulateEnter \/ SimulateIterate \/ SimulateExhausted

SpecCollisionSim == InitCollisionSim /\ [][NextCollisionSim]_vars

\* where an object is k steps after the start: k cells along its direction,
\* held at the edge of the grid
CellAfter(obj, k, grid_size) ==
    LET r == obj.r + k * DIRS(obj.direction)[1]
        c == obj.c + k * DIRS(obj.direction)[2]
    IN <<IF r < 0 THEN 0 ELSE IF r > grid_size - 1 THEN grid_size - 1 ELSE r,
         IF c < 0 THEN 0 ELSE IF c > grid_size - 1 THEN grid_size - 1 ELSE c>>

\* the steps of the horizon at which the two objects are on the same cell
MeetingSteps ==
    {k \in 1..inp.max_steps :
        CellAfter(inp.x, k, inp.grid_size) = CellAfter(inp.y, k, inp.grid_size)}

(* C13: collision simulation.  At every step of simulate both objects have
   moved one cell along their direction, held at the grid's edge, so both are
   inside the grid; simulate returns collided with step k and cell c iff k is
   the least step of 1..MAX_STEPS at which the objects share a cell and c is
   that cell, and returns no collision iff they share no cell at any step of
   1..MAX_STEPS. *)
CollisionFirstMeeting ==
    (inp.kind = "collision_sim" /\ pc \in {"stepping", "returned"}) =>
        /\ InGrid(<<sim.curr_x.r, sim.curr_x.c>>, inp.grid_size)
        /\ InGrid(<<sim.curr_y.r, sim.curr_y.c>>, inp.grid_size)
        /\ <<sim.curr_x.r, sim.curr_x.c>> = CellAfter(inp.x, sim.step, inp.grid_size)
        /\ <<sim.curr_y.r, sim.curr_y.c>> = CellAfter(inp.y, sim.step, inp.grid_size)
        /\ pc = "returned" =>
              /\ out = simulate(inp.x, inp.y, inp.grid_size, inp.max_steps)
              /\ out.collided <=> MeetingSteps # {}
              /\ out.collided =>
                    /\ out.step \in MeetingSteps
                    /\ \A k \in MeetingSteps : out.step <= k
                    /\ <<out.r, out.c>> = CellAfter(inp.x, out.step, inp.grid_size)
              /\ ~out.collided => out = [collided |-> FALSE, step |-> 0,
                                         r |-> 0, c |-> 0]

\* two objects that were both held at an edge meet on a step later than the
\* first, having started on different cells
CollisionLateWitness ==
    /\ inp.kind = "collision_sim"
    /\ pc = "returned"
    /\ out.collided
    /\ out.step > 1
    /\ <<inp.x.r, inp.x.c>> # <<inp.y.r, inp.y.c>>
    /\ \E k \in 1..out.step :
          CellAfter(inp.x, k, inp.grid_size) = CellAfter(inp.x, k - 1, inp.grid_size)

\* two objects that cross each other without ever sharing a cell
CollisionNeverWitness ==
    /\ inp.kind = "collision_sim"
    /\ pc = "returned"
    /\ ~out.collided
    /\ inp.max_steps = SimSteps
    /\ CellAfter(inp.x, 1, inp.grid_size) = <<inp.y.r, inp.y.c>>
    /\ CellAfter(inp.y, 1, inp.grid_size) = <<inp.x.r, inp.x.c>>

----------------------------------------------------------------------------
(* The part of the circuit generate_scenario after the two paths are found,
   on every bulb and pair of paths the path search can return on a grid of
   CircuitGrid cells a side, with every draw of the switches, of their states
   and of the gap *)

\* wire_cells: the cells of the path that are neither battery nor bulb
wire_cells_of(bulb, full_path, grid_size) ==
    SelectSeq(full_path,
              LAMBDA p : p \notin {<<0, 0>>, <<grid_size - 1, 0>>, bulb})

InitCircuitScenario ==
    /\ Idle
    /\ pc = "call"
    /\ \E bulb \in {b \in Cells(CircuitGrid) :
                       b[2] >= 1 /\ b # <<0, 0>> /\ b # <<CircuitGrid - 1, 0>>} :
         \E path1 \in find_random_path(<<0, 0>>, bulb, {<<CircuitGrid - 1, 0>>},
                                        CircuitGrid) \ {None} :
           \E path2 \in find_random_path(bulb, <<CircuitGrid - 1, 0>>,
                                          Range(path1) \ {bulb}, CircuitGrid) \ {None} :
             LET wire_cells == wire_cells_of(bulb, path1 \o Tail(path2), CircuitGrid)
             IN \E num_switches \in 1..MaxSwitches :
                  /\ ~(Len(wire_cells) < num_switches)
                  /\ \E switch_positions \in SampleOrders(wire_cells, num_switches) :
                       \E states \in [1..num_switches -> {"CLOSED", "OPEN"}] :
                         \E broken_pos \in {None} \cup (Range(wire_cells)
                                                      \ Range(switch_positions)) :
                           inp = [kind |-> "circuit_scenario", bulb |-> bulb,
                                  path1 |-> path1, path2 |-> path2,
                                  switch_positions |-> switch_positions,
                                  states |-> states, broken_pos |-> broken_pos,
                                  grid_size |-> CircuitGrid]
    /\ out = None
    /\ sim = NoSim

\* switches, grid, lights_up and the gap: the scenario that is returned
CallCircuitScenario ==
    /\ pc = "call"
    /\ inp.kind = "circuit_scenario"
    /\ out' = circuit_scenario(inp.bulb, inp.path1, inp.path2, inp.switch_positions,
                               inp.states, inp.broken_pos, inp.grid_size)
    /\ pc' = "returned"
    /\ UNCHANGED <<runVars, inp, sim>>

NextCircuitScenario == CallCircuitScenario

SpecCircuitScenario == InitCircuitScenario /\ [][NextCircuitScenario]_vars

\* a cell of the wire path shows as empty space on the returned grid
PathHasGap ==
    \E p \in Range(inp.path1 \o Tail(inp.path2)) :
        out.grid[p[1] + 1][p[2] + 1] = "."

(* C14: circuit ground truth.  For every scenario the circuit
   generate_scenario returns, lights_up is true iff every placed switch is
   CLOSED and no wire cell of the path was blanked out as a gap. *)
CircuitGroundTruth ==
    (pc = "returned" /\ inp.kind = "circuit_scenario") =>
        /\ DOMAIN out.switch_states = DOMAIN out.switches
        /\ Cardinality(DOMAIN out.switches) = Len(inp.switch_positions)
        /\ PathHasGap <=> inp.broken_pos # None
        /\ out.lights_up <=>
              /\ \A n \in DOMAIN out.switch_states : out.switch_states[n] = "CLOSED"
              /\ ~PathHasGap

\* every switch is closed and the bulb is dark because of a gap in the wire
CircuitGapWitness ==
    /\ pc = "returned"
    /\ inp.kind = "circuit_scenario"
    /\ Cardinality(DOMAIN out.switches) = 2
    /\ \A n \in DOMAIN out.switch_states : out.switch_states[n] = "CLOSED"
    /\ PathHasGap
    /\ ~out.lights_up

\* no gap, two closed switches: the bulb is lit
CircuitLitWitness ==
    /\ pc = "returned"
    /\ inp.kind = "circuit_scenario"
    /\ Cardinality(DOMAIN out.switches) = 2
    /\ ~PathHasGap
    /\ out.lights_up

----------------------------------------------------------------------------
(* Properties of the class counters of the collision and circuit runs *)

(* C15: collision class balance.  In every state of the collision
   generator's loop at most NUM_SAMPLES // 2 collision records and at most
   NUM_SAMPLES - NUM_SAMPLES // 2 non-collision records have been emitted;
   when the loop has ended both counts equal these targets. *)
CollisionBalanced ==
    domain = "collision" =>
        /\ counts.pos <= args.num_samples \div 2
        /\ counts.neg <= args.num_samples - args.num_samples \div 2
        /\ counts.pos + counts.neg = Len(samples)
        /\ pc = "done" =>
              /\ counts.pos = args.num_samples \div 2
              /\ counts.neg = args.num_samples - args.num_samples \div 2

\* a finished run of two records, one of each class
CollisionBalancedWitness ==
    /\ domain = "collision"
    /\ pc = "done"
    /\ args.num_samples = 2
    /\ counts = [pos |-> 1, neg |-> 1]

(* C16: circuit class balance.  In every state of the circuit generator's
   loop neither class (bulb on, bulb off) has more than ceil(NUM_SAMPLES / 2)
   records emitted, so the two class counts of a finished run differ by at
   most 1. *)
CircuitBalanced ==
    domain = "circuit" =>
        /\ counts.pos <= (args.num_samples + 1) \div 2
        /\ counts.neg <= (args.num_samples + 1) \div 2
        /\ pc = "done" => Abs(counts.pos - counts.neg) <= 1

----------------------------------------------------------------------------
(* Properties of the key-lock sampler and of failed attempts *)

\* the number of moves among the actions of a key-lock answer
MoveCount(actions) == Cardinality({i \in 1..Len(actions) : actions[i] \in MOVES})

(* C17: key-lock non-triviality.  No instance the key-lock generate_scenario
   returns has a route from start to goal that avoids every door cell and
   every obstacle and has at most as many moves as the canonical solution:
   every such draw is rejected. *)
KeylockNotBypassable ==
    scenario.kind = "keylock" =>
        LET keyless == BfsDistance(scenario.start, scenario.end,
                                   scenario.obstacles \cup DOMAIN scenario.doors,
                                   scenario.grid_size)
        IN ~(keyless # -1 /\ keyless <= MoveCount(scenario.solution_actions))

(* C18: a failed attempt has no side effects on run state.  Whenever an
   attempt is abandoned (unsolvable, trivial, duplicate or distractor-short)
   the record list, the ledger of fingerprints and the class counters are
   what they were before the attempt: between attempts the ledger holds the
   fingerprints of the emitted records and nothing else, and the class
   counters count the emitted records and nothing else, so an instance that
   was sampled and not emitted can still be emitted later. *)
FailedAttemptLeavesNoTrace ==
    pc = "loop" =>
        /\ domain \in {"spatial", "keylock"} =>
              seen_fingerprints = {sha256(samples[i].query) : i \in 1..Len(samples)}
        /\ domain \in {"collision", "circuit"} =>
              counts.pos + counts.neg = Len(samples)

----------------------------------------------------------------------------
(* The collision generator up to its first record, under a horizon of
   LateSteps steps: main samples scenarios and generate_distractors builds
   the wrong answers of each *)

LateSteps == 2

InitCollisionDistractors ==
    /\ domain = "collision"
    /\ args = [num_samples |-> 2, max_steps |-> LateSteps]
    /\ pc = "loop"
    /\ scenario = NoScenario
    /\ distractors = << >>
    /\ tries = 0
    /\ doc = NoDoc
    /\ samples = << >>
    /\ seen_fingerprints = {}
    /\ attempts = 0
    /\ counts = [pos |-> 0, neg |-> 0]
    /\ inp = NoInput
    /\ out = None
    /\ sim = NoSim

NextCollisionDistractors ==
    \/ CollisionAttempt \/ CollisionFixed \/ CollisionFake \/ CollisionFakesOver
    \/ CollisionFill \/ CollisionAssemble

SpecCollisionDistractors ==
    InitCollisionDistractors /\ [][NextCollisionDistractors]_vars

\* the answers 'Yes, at <cell> on step <k>' that are true of the current
\* scenario: at step k both objects are on that cell
TrueMeetings ==
    {format_result([collided |-> TRUE, step |-> k,
                    r |-> CellAfter(scenario.obj_x, k, ColGrid)[1],
                    c |-> CellAfter(scenario.obj_x, k, ColGrid)[2]]) :
        k \in {j \in 1..args.max_steps :
                  CellAfter(scenario.obj_x, j, ColGrid)
                    = CellAfter(scenario.obj_y, j, ColGrid)}}

(* C19: collision distractors are truly wrong.  For every collision scenario
   and every sequence of random draws, no distractor 'Yes, at <cell> on step
   <k>' names a cell and a step at which the two objects are on the same cell
   in the simulation, and 'No, they never collide' is a distractor only when
   the objects do meet within the horizon. *)
CollisionDistractorsWrong ==
    scenario.kind = "collision" =>
        \A i \in 1..Len(distractors) :
            /\ distractors[i] \notin TrueMeetings
            /\ distractors[i] = "No, they never collide" => TrueMeetings # {}

----------------------------------------------------------------------------
(* Parameters under which no valid instance exists *)

\* a tower of num_blocks blocks has fewer orders besides the stable one than
\* the 3 distractors a record needs
TooFewOrders ==
    /\ domain = "stacking"
    /\ Cardinality(ShuffleOrders(args.num_blocks)) - 1 < 3

(* C20: structurally impossible parameters are reported, not retried.  When
   the parameters make a valid instance impossible (here: fewer distinct
   block orders than the 3 distractors required, as with 2 blocks) the
   generator detects it before sampling and stops with an error: it never
   draws a scenario and never enters the sample-and-retry loop. *)
ImpossibleParamsNotSampled ==
    TooFewOrders =>
        /\ scenario = NoScenario
        /\ pc \in {"loop", "raised"}

----------------------------------------------------------------------------
(* The key-lock generate_scenario called on one shuffled layout: the start on
   the top-left cell of a grid of KeyGrid cells a side; end, one or two
   key-door pairs and up to MaxKeyObst obstacles on distinct cells of the
   pool *)

InitKeyLockScenario ==
    /\ Idle
    /\ pc = "call"
    /\ \E num_pairs \in 1..2 :
         \E end \in PoolCells(KeyGrid) \ {<<0, 0>>} :
           \E k \in PoolCells(KeyGrid) \X PoolCells(KeyGrid),
              d \in PoolCells(KeyGrid) \X PoolCells(KeyGrid) :
              LET placed == {<<0, 0>>, end} \cup {k[i] : i \in 1..num_pairs}
                                            \cup {d[i] : i \in 1..num_pairs}
              IN /\ Cardinality(placed) = 2 + 2 * num_pairs
                 /\ (num_pairs = 1 => k[2] = k[1] /\ d[2] = d[1])
                 /\ \E o \in SubsetsUpTo(PoolCells(KeyGrid) \ placed, MaxKeyObst) :
                      inp = [kind |-> "keylock_scenario", grid_size |-> KeyGrid,
                             start |-> <<0, 0>>, end |-> end, obstacles |-> o,
                             keys |-> PairDict(k, num_pairs),
                             doors |-> PairDict(d, num_pairs)]
    /\ out = None
    /\ sim = NoSim

\* the solver, the triviality filter and the returned scenario (or None)
CallGenerateScenario ==
    /\ pc = "call"
    /\ inp.kind = "keylock_scenario"
    /\ out' = keylock_generate_scenario(inp.start, inp.end, inp.obstacles,
                                        inp.keys, inp.doors, inp.grid_size)
    /\ pc' = "returned"
    /\ UNCHANGED <<runVars, inp, sim>>

NextKeyLockScenario == CallGenerateScenario

SpecKeyLockScenario == InitKeyLockScenario /\ [][NextKeyLockScenario]_vars

\* the two searches of generate_scenario on the layout in inp
WithKeys ==
    bfs_with_keys(inp.start, inp.end, inp.obstacles, inp.keys, inp.doors,
                  inp.grid_size)
Keyless ==
    bfs_with_keys(inp.start, inp.end, inp.obstacles, << >>, << >>, inp.grid_size)

\* the keyless path steps on a door cell
KeylessTouchesDoor == \E d \in DOMAIN inp.doors : d \in Range(Keyless.path)

(* C21: key-lock triviality filter, exact shape.  generate_scenario rejects
   a solvable draw exactly when the path of the door-ignoring, key-ignoring
   search touches no door cell, and then that path has as many entries as the
   with-keys solution path; the keyless search succeeds whenever the
   with-keys search does and its path is never longer, so the length
   comparison alone lets no draw through. *)
TrivialityFilterShape ==
    (pc = "returned" /\ inp.kind = "keylock_scenario") =>
        /\ ~WithKeys.found => out = NoScenario
        /\ WithKeys.found =>
              /\ Keyless.found
              /\ Len(Keyless.path) <= Len(WithKeys.path)
              /\ (out = NoScenario) <=> ~KeylessTouchesDoor
              /\ out = NoScenario => Len(Keyless.path) = Len(WithKeys.path)
              /\ out # NoScenario =>
                    /\ out.solution_path = WithKeys.path
                    /\ out.solution_actions = WithKeys.actions

\* a solvable layout with a door that is rejected as trivial
TrivialRejectedWitness ==
    /\ pc = "returned"
    /\ inp.kind = "keylock_scenario"
    /\ WithKeys.found
    /\ out = NoScenario

\* a returned layout whose keyless path is as long as the with-keys path and
\* crosses a door
EqualLengthKeptWitness ==
    /\ pc = "returned"
    /\ inp.kind = "keylock_scenario"
    /\ out # NoScenario
    /\ Len(Keyless.path) = Len(WithKeys.path)
    /\ KeylessTouchesDoor

----------------------------------------------------------------------------
(* Properties of the replay validators under answers the prompt forbids *)

(* C22: unlock precedes a door move.  The key-lock validator classifies as
   invalid every action sequence that moves the agent into a door cell with
   no unlock of that door's colour immediately before the move, even when
   the key is held; in particular the canonical answer of an accepted
   instance with its unlock actions removed is invalid, and so is accepted
   as a distractor. *)
MoveWithoutUnlockInvalid ==
    (/\ scenario.kind = "keylock"
     /\ no_unlock(scenario.solution_actions) # scenario.solution_actions) =>
        is_action_seq_invalid(scenario.start, scenario.end, scenario.obstacles,
                              scenario.keys, scenario.doors,
                              no_unlock(scenario.solution_actions),
                              scenario.grid_size)

\* the action list with the token `wait`, which no branch of the validator
\* knows, put in after its first i actions
WithUnknownToken(actions, i) ==
    SubSeq(actions, 1, i) \o <<"wait">> \o SubSeq(actions, i + 1, Len(actions))

(* C23: unknown tokens are violations in both replay validators.  Any
   sequence that holds a token outside the vocabulary is classified invalid,
   even if its other tokens replay to the goal: here, the solver's answer to
   a key-lock instance with an unknown token put in at any place. *)
UnknownTokenInvalid ==
    (pc = "solved" /\ inp.kind = "keylock" /\ out.found) =>
        \A i \in 0..Len(out.actions) :
            is_action_seq_invalid(inp.start, inp.end, inp.obstacles, inp.keys,
                                  inp.doors, WithUnknownToken(out.actions, i),
                                  inp.grid_size)

----------------------------------------------------------------------------
(* Properties of the circuit scenario as the prompt draws it *)

\* the cells of the returned grid that carry current: wire cells and the
\* cells of switches whose state is CLOSED
Conducting ==
    {p \in Cells(inp.grid_size) :
        LET ch == out.grid[p[1] + 1][p[2] + 1]
        IN \/ ch = "W"
           \/ \E n \in DOMAIN out.switch_states :
                 /\ out.switch_states[n] = "CLOSED"
                 /\ out.switches[n] = p}

\* a route of 4-adjacent conducting cells joins cell a to cell b
Joined(a, b) ==
    BfsDistance(a, b, Cells(inp.grid_size) \ (Conducting \cup {a, b}),
                inp.grid_size) # -1

\* the diagram conducts from '+' to the bulb and from the bulb to '-'
DiagramConducts ==
    /\ Joined(<<0, 0>>, out.bulb_pos)
    /\ Joined(out.bulb_pos, <<inp.grid_size - 1, 0>>)

(* C24: the circuit label agrees with the rendered diagram.  For every
   returned scenario lights_up is true iff the grid of the prompt has a route
   of 4-adjacent cells from '+' to the bulb and from the bulb to '-' over
   wire cells and CLOSED switch cells only: where an open switch or a gap
   makes lights_up false, no adjacency of the winding wire bypasses it. *)
LabelAgreesWithDiagram ==
    (pc = "returned" /\ inp.kind = "circuit_scenario") =>
        (out.lights_up <=> DiagramConducts)

----------------------------------------------------------------------------
(* The circuit generate_scenario step by step on a grid of CircuitGrid cells
   a side: the search of the wire from '+' to the bulb, the search from the
   bulb to '-', then the switches, their states and the gap.  sim holds the
   paths found so far. *)

\* the depth-first loop of find_random_path can pop its stack empty without
\* meeting end, which is when the function goes on to find_path
RECURSIVE stack_runs_empty(_, _, _, _, _)
stack_runs_empty(stack, visited, end, avoid, grid_size) ==
    IF Len(stack) = 0 THEN TRUE
    ELSE LET path == stack[Len(stack)]
             curr == path[Len(path)]
         IN IF curr = end THEN FALSE
            ELSE \E cells \in pushed_cells(curr, visited, avoid, grid_size) :
                    stack_runs_empty(
                        SubSeq(stack, 1, Len(stack) - 1)
                          \o [k \in 1..Len(cells) |-> Append(path, cells[k])],
                        visited \cup Range(cells), end, avoid, grid_size)

InitCircuitPaths ==
    /\ Idle
    /\ pc = "call"
    /\ \E bulb \in {b \in Cells(CircuitGrid) :
                       b[2] >= 1 /\ b # <<0, 0>> /\ b # <<CircuitGrid - 1, 0>>} :
         inp = [kind |-> "circuit_paths", bulb |-> bulb, grid_size |-> CircuitGrid]
    /\ out = None
    /\ sim = NoSim

\* path1 = find_random_path(plus, bulb, {minus}); None returns None
SearchPath1 ==
    /\ pc = "call"
    /\ inp.kind = "circuit_paths"
    /\ \E path1 \in find_random_path(<<0, 0>>, inp.bulb, {<<inp.grid_size - 1, 0>>},
                                      inp.grid_size) :
         /\ sim' = [kind |-> "circuit_paths", path1 |-> path1, path2 |-> None]
         /\ IF path1 = None
            THEN pc' = "returned" /\ out' = NoScenario
            ELSE pc' = "path1" /\ out' = out
    /\ UNCHANGED <<runVars, inp>>

\* path2 = find_random_path(bulb, minus, set(path1) - {bulb}); None returns None
SearchPath2 ==
    /\ pc = "path1"
    /\ inp.kind = "circuit_paths"
    /\ \E path2 \in find_random_path(inp.bulb, <<inp.grid_size - 1, 0>>,
                                      Range(sim.path1) \ {inp.bulb}, inp.grid_size) :
         /\ sim' = [sim EXCEPT !.path2 = path2]
         /\ IF path2 = None
            THEN pc' = "returned" /\ out' = NoScenario
            ELSE pc' = "path2" /\ out' = out
    /\ UNCHANGED <<runVars, inp>>

\* the switches, their states and the gap; too few wire cells returns None
PlaceSwitches ==
    /\ pc = "path2"
    /\ inp.kind = "circuit_paths"
    /\ LET wire_cells == wire_cells_of(inp.bulb, sim.path1 \o Tail(sim.path2),
                                       inp.grid_size)
       IN \E num_switches \in 1..MaxSwitches :
            IF Len(wire_cells) < num_switches
            THEN out' = NoScenario
            ELSE \E switch_positions \in SampleOrders(wire_cells, num_switches) :
                   \E states \in [1..num_switches -> {"CLOSED", "OPEN"}] :
                     \E broken_pos \in {None} \cup (Range(wire_cells)
                                                  \ Range(switch_positions)) :
                       out' = circuit_scenario(inp.bulb, sim.path1, sim.path2,
                                               switch_positions, states, broken_pos,
                                               inp.grid_size)
    /\ pc' = "returned"
    /\ UNCHANGED <<runVars, inp, sim>>

NextCircuitPaths == SearchPath1 \/ SearchPath2 \/ PlaceSwitches

SpecCircuitPaths == InitCircuitPaths /\ [][NextCircuitPaths]_vars

\* a sequence of cells in which each cell is 4-adjacent to the one before it
\* and no cell comes twice
SimplePath(path) ==
    /\ \A i \in 1..(Len(path) - 1) : Adjacent(path[i], path[i + 1])
    /\ \A i, j \in 1..Len(path) : path[i] = path[j] => i = j

\* where the depth-first loop of a search can run empty, find_path on the
\* same arguments returns None under every shuffle
FallbackFindsNothing(start, end, avoid, grid_size) ==
    stack_runs_empty(<<<<start>>>>, {start}, end, avoid, grid_size)
        => find_path(start, end, avoid, grid_size) = {None}

(* C25: the circuit wire is a simple path.  In every returned scenario the
   wire starts at '+', passes through the bulb exactly once and ends at '-',
   consecutive cells are 4-adjacent, no cell repeats, the part before the
   bulb keeps off '-', and every switch sits on a wire cell of its own that
   is neither a terminal nor the bulb; and in both searches the breadth-first
   fallback finds no path where the depth-first search found none. *)
CircuitWireSimplePath ==
    inp.kind = "circuit_paths" =>
        LET plus == <<0, 0>>
            minus == <<inp.grid_size - 1, 0>>
        IN /\ FallbackFindsNothing(plus, inp.bulb, {minus}, inp.grid_size)
           /\ (pc # "call" /\ sim.path1 # None) =>
                 /\ sim.path1[1] = plus
                 /\ sim.path1[Len(sim.path1)] = inp.bulb
                 /\ minus \notin Range(sim.path1)
                 /\ SimplePath(sim.path1)
                 /\ FallbackFindsNothing(inp.bulb, minus,
                                         Range(sim.path1) \ {inp.bulb}, inp.grid_size)
           /\ (pc = "returned" /\ out # NoScenario) =>
                 LET full_path == sim.path1 \o Tail(sim.path2)
                 IN /\ full_path[1] = plus
                    /\ full_path[Len(full_path)] = minus
                    /\ Cardinality({i \in 1..Len(full_path) :
                                       full_path[i] = inp.bulb}) = 1
                    /\ out.bulb_pos = inp.bulb
                    /\ SimplePath(full_path)
                    /\ \A n \in DOMAIN out.switches :
                          /\ out.switches[n] \in Range(full_path) \ {plus, minus, inp.bulb}
                          /\ \A k \in DOMAIN out.switches :
                                out.switches[k] = out.switches[n] => k = n

\* a scenario is returned whose wire winds (longer than the shortest way
\* round) and carries two switches
WindingWireWitness ==
    /\ inp.kind = "circuit_paths"
    /\ pc = "returned"
    /\ out # NoScenario
    /\ Cardinality(DOMAIN out.switches) = 2
    /\ Len(sim.path1) - 1 > BfsDistance(<<0, 0>>, inp.bulb,
                                        {<<inp.grid_size - 1, 0>>}, inp.grid_size)

\* the first wire walls '-' in: the second search runs its stack empty, falls
\* back to find_path, and the generator returns None
FallbackTakenWitness ==
    /\ inp.kind = "circuit_paths"
    /\ pc = "returned"
    /\ out = NoScenario
    /\ sim.path1 # None
    /\ sim.path2 = None
    /\ stack_runs_empty(<<<<inp.bulb>>>>, {inp.bulb}, <<inp.grid_size - 1, 0>>,
                        Range(sim.path1) \ {inp.bulb}, inp.grid_size)

----------------------------------------------------------------------------
(* simulate_path of the navigation script step by step: the locals pos,
   hit_wall and out_of_bounds before the loop, one iteration of the loop per
   step, then the SimulationResult.  sim.i is the place of the loop in the
   direction list. *)

\* side of the grid that is replayed on
PathGrid == 3
\* longest direction list that is replayed
MaxPathLen == 3
\* most obstacle cells on the grid that is replayed on
MaxPathObst == 1

\* the tokens of a direction list: the four directions and a token that
\* DIR_VECTORS does not know
PATH_TOKENS == Range(all_dir_names) \cup {"wait"}

\* the sequences over S of at most n entries
SeqsUpTo(S, n) == UNION {[1..k -> S] : k \in 0..n}

InitSimulatePath ==
    /\ Idle
    /\ pc = "call"
    /\ \E start \in Cells(PathGrid) :
         \E end \in {<<PathGrid - 1, PathGrid - 1>>, <<0, 1>>} \ {start} :
           \E o \in SubsetsUpTo(Cells(PathGrid) \ {start, end}, MaxPathObst) :
             \E directions \in SeqsUpTo(PATH_TOKENS, MaxPathLen) :
               inp = [kind |-> "simulate_path", grid_size |-> PathGrid,
                      start |-> start, end |-> end, obstacles |-> o,
                      directions |-> directions]
    /\ out = None
    /\ sim = NoSim

\* pos = start, hit_wall = False, out_of_bounds = False
SimulatePathEnter ==
    /\ pc = "call"
    /\ inp.kind = "simulate_path"
    /\ sim' = [pos |-> inp.start, hit_wall |-> FALSE, out_of_bounds |-> FALSE,
               broke |-> FALSE, i |-> 1]
    /\ pc' = "replay"
    /\ UNCHANGED <<runVars, inp, out>>

\* one iteration of the for-loop over directions
SimulatePathIterate ==
    /\ pc = "replay"
    /\ inp.kind = "simulate_path"
    /\ ~sim.broke
    /\ sim.i <= Len(inp.directions)
    /\ sim' = [simulate_path_step(sim, inp.directions[sim.i], inp.obstacles,
                                  inp.grid_size) EXCEPT !.i = sim.i + 1]
    /\ UNCHANGED <<runVars, pc, inp, out>>

\* the loop is left, by break or at the end of the list: the result
SimulatePathReturn ==
    /\ pc = "replay"
    /\ inp.kind = "simulate_path"
    /\ sim.broke \/ sim.i > Len(inp.directions)
    /\ out' = [reached_goal |-> (sim.pos = inp.end), hit_wall |-> sim.hit_wall,
               out_of_bounds |-> sim.out_of_bounds, final_position |-> sim.pos]
    /\ pc' = "returned"
    /\ UNCHANGED <<runVars, inp, sim>>

NextSimulatePath == SimulatePathEnter \/ SimulatePathIterate \/ SimulatePathReturn

SpecSimulatePath == InitSimulatePath /\ [][NextSimulatePath]_vars

\* the cell a walker without physics stands on after the first k directions:
\* every known direction moves it by one cell, an unknown token does not
RECURSIVE FreeWalk(_, _, _)
FreeWalk(start, directions, k) ==
    IF k = 0 THEN start
    ELSE LET p == FreeWalk(start, directions, k - 1)
             d == directions[k]
         IN CASE d = "up"    -> <<p[1] - 1, p[2]>>
              [] d = "down"  -> <<p[1] + 1, p[2]>>
              [] d = "left"  -> <<p[1], p[2] - 1>>
              [] d = "right" -> <<p[1], p[2] + 1>>
              [] OTHER       -> p

\* the steps of the list that break a rule when taken from the free walk
ViolatingSteps ==
    {k \in 1..Len(inp.directions) :
        \/ inp.directions[k] \notin Range(all_dir_names)
        \/ ~InGrid(FreeWalk(inp.start, inp.directions, k), inp.grid_size)
        \/ FreeWalk(inp.start, inp.directions, k) \in inp.obstacles}

\* the first of them, or one past the end of the list when there is none
FirstViolation ==
    IF ViolatingSteps = {} THEN Len(inp.directions) + 1
    ELSE CHOOSE k \in ViolatingSteps : \A j \in ViolatingSteps : k <= j

(* C26: the navigation replay stops at the first violation.  During
   simulate_path the position is always inside the grid and never on an
   obstacle; the first step that would leave the grid or enter an obstacle
   sets its flag, applies no move, and no later step is replayed, so that
   final_position is the last legal cell; and any sequence whose walk would
   touch an obstacle is classified invalid. *)
ReplayStopsAtFirstViolation ==
    (inp.kind = "simulate_path" /\ pc # "call") =>
        LET v == FirstViolation
            n == Len(inp.directions)
            legal == FreeWalk(inp.start, inp.directions, v - 1)
        IN /\ InGrid(sim.pos, inp.grid_size)
           /\ sim.pos \notin inp.obstacles
           /\ sim.i <= v + 1
           /\ sim.pos = FreeWalk(inp.start, inp.directions,
                                 IF sim.i <= v THEN sim.i - 1 ELSE v - 1)
           /\ sim.broke <=> sim.i = v + 1 /\ v <= n
           /\ (sim.hit_wall \/ sim.out_of_bounds) <=> sim.broke
           /\ sim.hit_wall =>
                 FreeWalk(inp.start, inp.directions, v) \in inp.obstacles
           /\ sim.out_of_bounds =>
                 \/ inp.directions[v] \notin Range(all_dir_names)
                 \/ ~InGrid(FreeWalk(inp.start, inp.directions, v), inp.grid_size)
           /\ pc = "returned" =>
                 /\ out.final_position = legal
                 /\ out.hit_wall = sim.hit_wall
                 /\ out.out_of_bounds = sim.out_of_bounds
                 /\ (out.hit_wall \/ out.out_of_bounds) <=> v <= n
                 /\ out = simulate_path(inp.start, inp.end, inp.obstacles,
                                        inp.directions, inp.grid_size)
                 /\ (\E k \in 1..n :
                        FreeWalk(inp.start, inp.directions, k) \in inp.obstacles)
                       => is_path_physically_invalid(inp.start, inp.end, inp.obstacles,
                                                     inp.directions, inp.grid_size)

\* a walk that steps back off the obstacle and would end on the goal: the
\* replay stopped at the obstacle, one legal step in, with directions left over
StoppedAtObstacleWitness ==
    /\ inp.kind = "simulate_path"
    /\ pc = "returned"
    /\ out.hit_wall
    /\ FirstViolation = 2
    /\ Len(inp.directions) = 3
    /\ out.final_position = FreeWalk(inp.start, inp.directions, 1)
    /\ out.final_position # inp.start
    /\ FreeWalk(inp.start, inp.directions, 3) = inp.end
    /\ InGrid(FreeWalk(inp.start, inp.directions, 3), inp.grid_size)

\* the replay stopped at a step that would leave the grid
StoppedAtEdgeWitness ==
    /\ inp.kind = "simulate_path"
    /\ pc = "returned"
    /\ out.out_of_bounds
    /\ ~out.hit_wall
    /\ FirstViolation < Len(inp.directions)
    /\ inp.directions[FirstViolation] \in Range(all_dir_names)

----------------------------------------------------------------------------
(* The loop of the container generate_scenario step by step: containers of
   any capacities at any levels within them, then one action after another,
   each applied by simulate_step to the levels the one before left.  sim
   holds the levels, the levels before the last action and the actions so
   far. *)

\* the largest capacity of one of two containers in a run of actions
RunCap == 4
\* the number of actions of a run (num_actions)
RunActions == 3

InitContainerRun ==
    /\ Idle
    /\ pc = "call"
    /\ \E names \in {SubSeq(CONTAINER_NAMES, 1, 2), CONTAINER_NAMES} :
         \E capacity \in [Range(names) ->
                            2..(IF Len(names) = 2 THEN RunCap ELSE MaxCap)] :
           \E start \in {st \in [Range(names) -> 0..RunCap] :
                            \A k \in Range(names) : st[k] <= capacity[k]} :
             inp = [kind |-> "container_run", names |-> names,
                    capacity |-> capacity, start |-> start]
    /\ out = None
    /\ sim = NoSim

\* initial_containers = copy.deepcopy(containers); actions = []
RunEnter ==
    /\ pc = "call"
    /\ inp.kind = "container_run"
    /\ sim' = [current |-> inp.start, before |-> inp.start, actions |-> << >>]
    /\ pc' = "acting"
    /\ UNCHANGED <<runVars, inp, out>>

\* one iteration of for _ in range(num_actions): an action is drawn,
\* appended and applied
RunAction ==
    /\ pc = "acting"
    /\ inp.kind = "container_run"
    /\ Len(sim.actions) < RunActions
    /\ \E action \in container_actions(inp.names) :
         sim' = [current |-> container_simulate_step(inp.capacity, sim.current, action),
                 before |-> sim.current,
                 actions |-> Append(sim.actions, action)]
    /\ UNCHANGED <<runVars, pc, inp, out>>

\* final_state and the returned Scenario
RunReturn ==
    /\ pc = "acting"
    /\ inp.kind = "container_run"
    /\ Len(sim.actions) = RunActions
    /\ out' = [kind |-> "container", names |-> inp.names, capacity |-> inp.capacity,
               current |-> inp.start, actions |-> sim.actions,
               final_state |-> sim.current]
    /\ pc' = "returned"
    /\ UNCHANGED <<runVars, inp, sim>>

NextContainerRun == RunEnter \/ RunAction \/ RunReturn

SpecContainerRun == InitContainerRun /\ [][NextContainerRun]_vars

\* the volume in all the containers together
RECURSIVE TotalVolume(_, _)
TotalVolume(names, state) ==
    IF Len(names) = 0 THEN 0
    ELSE state[Head(names)] + TotalVolume(Tail(names), state)

(* C27: container volumes stay physical.  Starting from levels with
   0 <= current <= capacity in every container, after any sequence of Pour,
   Fill and Empty steps applied by simulate_step every container still has
   0 <= current <= capacity, and each Pour leaves the total volume over all
   the containers unchanged. *)
VolumesStayPhysical ==
    (inp.kind = "container_run" /\ pc # "call") =>
        /\ \A k \in Range(inp.names) :
              0 <= sim.current[k] /\ sim.current[k] <= inp.capacity[k]
        /\ (Len(sim.actions) > 0 /\ sim.actions[Len(sim.actions)][1] = "Pour") =>
              TotalVolume(inp.names, sim.current) = TotalVolume(inp.names, sim.before)
        /\ pc = "returned" =>
              \A k \in Range(inp.names) :
                 0 <= out.final_state[k] /\ out.final_state[k] <= inp.capacity[k]

\* three actions in, the last one a pour that filled its destination to the
\* brim and left some of the liquid in the source
BrimfulPourWitness ==
    /\ inp.kind = "container_run"
    /\ pc = "acting"
    /\ Len(sim.actions) = RunActions
    /\ LET a == sim.actions[RunActions]
       IN /\ a[1] = "Pour"
          /\ sim.current[a[4]] = inp.capacity[a[4]]
          /\ sim.current[a[4]] > sim.before[a[4]]
          /\ sim.current[a[2]] > 0
    /\ sim.actions[1][1] = "Fill"
    /\ sim.current # inp.start

----------------------------------------------------------------------------
(* A container instance from generate_scenario to the distractors: the run
   of actions above on two containers, then generate_distractors on the
   Scenario that was returned.  distractors is the list under construction,
   tries the iterations left of the loop of strategy 3. *)

\* the largest capacity of a container of the instance
InstCap == 2

InitContainerInstance ==
    /\ Idle
    /\ pc = "call"
    /\ LET names == SubSeq(CONTAINER_NAMES, 1, 2)
       IN \E capacity \in [Range(names) -> 2..InstCap] :
            \E start \in {st \in [Range(names) -> 0..InstCap] :
                             \A k \in Range(names) : st[k] <= capacity[k]} :
              inp = [kind |-> "container_run", names |-> names,
                     capacity |-> capacity, start |-> start]
    /\ out = None
    /\ sim = NoSim

\* strategies 1 and 2 of generate_distractors on the returned Scenario
DistractorsFixed ==
    /\ pc = "returned"
    /\ inp.kind = "container_run"
    /\ LET after1 == container_try_add(<< >>,
                                       uncapped(out.capacity, out.current,
                                                out.actions, 1),
                                       out)
       IN \E order \in ShuffleOrders(Len(out.names)) :
            distractors' = container_try_add(
                              after1,
                              [k \in Range(out.names) |->
                                 LET i == CHOOSE j \in 1..Len(out.names) :
                                             out.names[j] = k
                                 IN out.final_state[out.names[order[i]]]],
                              out)
    /\ tries' = MaxTries
    /\ pc' = "strategy3"
    /\ UNCHANGED <<domain, args, scenario, doc, samples, seen_fingerprints,
                   attempts, counts, inp, out, sim>>

\* one iteration of the loop of strategy 3
DistractorsRandomize ==
    /\ pc = "strategy3"
    /\ inp.kind = "container_run"
    /\ tries > 0
    /\ Len(distractors) < 3
    /\ \E state3 \in {st \in [Range(out.names) -> 0..InstCap] :
                         \A k \in Range(out.names) : st[k] <= out.capacity[k]} :
         distractors' = container_try_add(distractors, state3, out)
    /\ tries' = tries - 1
    /\ UNCHANGED <<domain, args, pc, scenario, doc, samples, seen_fingerprints,
                   attempts, counts, inp, out, sim>>

\* return distractors[:3]
DistractorsReturn ==
    /\ pc = "strategy3"
    /\ inp.kind = "container_run"
    /\ ~(tries > 0 /\ Len(distractors) < 3)
    /\ distractors' = FirstN(distractors, 3)
    /\ tries' = 0
    /\ pc' = "distractors"
    /\ UNCHANGED <<domain, args, scenario, doc, samples, seen_fingerprints,
                   attempts, counts, inp, out, sim>>

NextContainerInstance ==
    \/ RunEnter \/ RunAction \/ RunReturn
    \/ DistractorsFixed \/ DistractorsRandomize \/ DistractorsReturn

SpecContainerInstance == InitContainerInstance /\ [][NextContainerInstance]_vars

(* C28: the container instance is stored unmutated and round-trips.  The
   Scenario generate_scenario returns keeps the initial volumes, not the
   volumes after the simulation; generate_distractors leaves its containers,
   actions and final_state as they were returned; replaying the stored
   actions with simulate_step from the stored containers yields exactly the
   stored final_state; and every returned distractor differs from
   final_state in at least one container. *)
ContainerInstanceRoundTrips ==
    (inp.kind = "container_run" /\ pc \in {"returned", "strategy3", "distractors"}) =>
        /\ out.current = inp.start
        /\ out.capacity = inp.capacity
        /\ out.actions = sim.actions
        /\ out.final_state = sim.current
        /\ container_simulate(out.capacity, out.current, out.actions, 1)
              = out.final_state
        /\ \A i \in 1..Len(distractors) :
              \E k \in Range(out.names) : distractors[i][k] # out.final_state[k]

\* three distractors are returned for an instance whose actions changed the
\* volumes and give another result when replayed from the final volumes
StoredInitialMattersWitness ==
    /\ inp.kind = "container_run"
    /\ pc = "distractors"
    /\ Len(distractors) = 3
    /\ out.current # out.final_state
    /\ container_simulate(out.capacity, out.final_state, out.actions, 1)
          # out.final_state

----------------------------------------------------------------------------
(* Properties of the canonical answer of an accepted key-lock instance *)

(* C29: accepted key-lock puzzles exercise the key constraint.  For every
   instance the key-lock generate_scenario returns, the canonical action
   list holds at least one pick_up action and at least one unlock action:
   the canonical route passes through a door. *)
AcceptedUsesKey ==
    (pc = "returned" /\ inp.kind = "keylock_scenario" /\ out # NoScenario) =>
        /\ \E i \in 1..Len(out.solution_actions) :
              starts_with_pick_up(out.solution_actions[i])
        /\ \E i \in 1..Len(out.solution_actions) :
              starts_with_unlock(out.solution_actions[i])

----------------------------------------------------------------------------
(* generate_all_tiers.py: main runs each generator script once per
   difficulty as a subprocess and prints a report.  A command line is kept
   as the sequence of its option strings; the values that follow them all
   parse as the types the options are declared with and are left out.  inp
   is the environment of the run, sim the loop of main and the subprocess it
   waits for, out what main has printed. *)

\* TASKS: each generator and the options of its extra_args, which are the
\* same at the three difficulties
TASKS ==
    <<[name |-> "spatial",
       extra_args |-> <<"--grid-size", "--num-obstacles", "--num-samples">>],
      [name |-> "keylock",
       extra_args |-> <<"--grid-size", "--num-obstacles", "--min-pairs",
                        "--max-pairs", "--num-samples">>],
      [name |-> "stacking",
       extra_args |-> <<"--num-blocks", "--min-width", "--max-width",
                        "--num-samples">>],
      [name |-> "container",
       extra_args |-> <<"--min-containers", "--max-containers", "--min-steps",
                        "--max-steps", "--max-capacity", "--num-samples">>],
      [name |-> "collision",
       extra_args |-> <<"--grid-size", "--num-objects", "--max-steps",
                        "--num-samples">>],
      [name |-> "circuit",
       extra_args |-> <<"--grid-size", "--min-switches", "--max-switches",
                        "--break-chance", "--num-samples">>]>>

DIFFICULTIES == <<"easy", "medium", "hard">>

\* the option strings the parser of each script declares with add_argument;
\* no option main passes is a proper prefix of one of them
declared_options(name) ==
    CASE name = "spatial"   -> {"-n", "--num-samples", "-o", "--output", "--seed"}
      [] name = "keylock"   -> {"-n", "--num-samples", "-o", "--output", "--seed"}
      [] name = "stacking"  -> {"--output", "--seed", "--num_blocks"}
      [] name = "container" -> {"--output", "--seed"}
      [] name = "collision" -> {"--output", "--seed"}
      [] name = "circuit"   -> {"--output", "--seed", "--grid-size", "--min-switches",
                                "--max-switches", "--break-chance", "--num-samples"}

\* the scripts that create the directory of their output file
makes_output_dir(name) == name \in {"spatial", "keylock"}

\* the exit status of a generator script: parse_args exits with 2 on an
\* unrecognized argument, open(output, "w") raises without its directory
script_returncode(name, unrecognized, has_data_dir) ==
    IF Len(unrecognized) > 0 THEN 2
    ELSE IF ~has_data_dir /\ ~makes_output_dir(name) THEN 1
    ELSE 0

InitAllTiers ==
    /\ Idle
    /\ pc = "call"
    \* main is started from the repository root or from elsewhere, with or
    \* without a data directory
    /\ \E cwd_is_root \in BOOLEAN, has_data_dir \in BOOLEAN :
         inp = [kind |-> "all_tiers", cwd_is_root |-> cwd_is_root,
                has_data_dir |-> has_data_dir]
    /\ out = None
    /\ sim = NoSim

\* total = len(TASKS) * 3; done = 0
AllTiersEnter ==
    /\ pc = "call"
    /\ inp.kind = "all_tiers"
    /\ sim' = [total |-> Len(TASKS) * 3, done |-> 0, name |-> "", difficulty |-> "",
               cmd |-> << >>, argi |-> 1, unrecognized |-> << >>, returncode |-> 0]
    /\ out' = [log |-> << >>, report |-> ""]
    /\ pc' = "loop"
    /\ UNCHANGED <<runVars, inp>>

\* the loop body up to subprocess.run: the next task and difficulty, cmd,
\* done += 1; the interpreter exits with 2 when it cannot open the script
AllTiersInvoke ==
    /\ pc = "loop"
    /\ inp.kind = "all_tiers"
    /\ sim.done < sim.total
    /\ LET task == TASKS[(sim.done \div Len(DIFFICULTIES)) + 1]
           difficulty == DIFFICULTIES[(sim.done % Len(DIFFICULTIES)) + 1]
       IN sim' = [sim EXCEPT !.done = sim.done + 1,
                             !.name = task.name,
                             !.difficulty = difficulty,
                             !.cmd = <<"--output", "--seed">> \o task.extra_args,
                             !.argi = 1,
                             !.unrecognized = << >>,
                             !.returncode = IF inp.cwd_is_root THEN 0 ELSE 2]
    /\ pc' = IF inp.cwd_is_root THEN "parsing" ELSE "exited"
    /\ UNCHANGED <<runVars, inp, out>>

\* parse_args of the script on the next option of the command line
ScriptParseArg ==
    /\ pc = "parsing"
    /\ inp.kind = "all_tiers"
    /\ sim.argi <= Len(sim.cmd)
    /\ sim' = [sim EXCEPT !.argi = sim.argi + 1,
                          !.unrecognized =
                              IF sim.cmd[sim.argi] \in declared_options(sim.name)
                              THEN sim.unrecognized
                              ELSE Append(sim.unrecognized, sim.cmd[sim.argi])]
    /\ UNCHANGED <<runVars, pc, inp, out>>

\* the command line is read: the script stops with an error or runs and exits
ScriptExit ==
    /\ pc = "parsing"
    /\ inp.kind = "all_tiers"
    /\ sim.argi > Len(sim.cmd)
    /\ sim' = [sim EXCEPT !.returncode =
                              script_returncode(sim.name, sim.unrecognized,
                                                inp.has_data_dir)]
    /\ pc' = "exited"
    /\ UNCHANGED <<runVars, inp, out>>

\* if result.returncode != 0: print ERROR, else print OK
AllTiersPrintResult ==
    /\ pc = "exited"
    /\ inp.kind = "all_tiers"
    /\ out' = [out EXCEPT !.log = Append(out.log,
                                         [output |-> sim.name \o "_" \o sim.difficulty,
                                          line |-> IF sim.returncode # 0
                                                   THEN "ERROR" ELSE "OK"])]
    /\ pc' = "loop"
    /\ UNCHANGED <<runVars, inp, sim>>

\* after the loops: print(f"\nAll {total} datasets generated!")
AllTiersReport ==
    /\ pc = "loop"
    /\ inp.kind = "all_tiers"
    /\ ~(sim.done < sim.total)
    /\ out' = [out EXCEPT !.report = "All " \o ToString(sim.total)
                                     \o " datasets generated!"]
    /\ pc' = "reported"
    /\ UNCHANGED <<runVars, inp, sim>>

NextAllTiers ==
    \/ AllTiersEnter \/ AllTiersInvoke \/ ScriptParseArg \/ ScriptExit
    \/ AllTiersPrintResult \/ AllTiersReport

SpecAllTiers == InitAllTiers /\ [][NextAllTiers]_vars

(* C30: the batch orchestrator produces all 18 datasets.  Run from the
   repository root with a data directory, every option generate_all_tiers
   passes is one the invoked script accepts, so every invocation exits with
   status 0; and the final report 'All 18 datasets generated!' is printed
   only when no invocation failed. *)
AllTiersSucceed ==
    inp.kind = "all_tiers" =>
        /\ (inp.cwd_is_root /\ inp.has_data_dir /\ pc = "exited") =>
              /\ sim.unrecognized = << >>
              /\ sim.returncode = 0
        /\ pc = "reported" =>
              /\ Len(out.log) = 18
              /\ \A i \in 1..Len(out.log) : out.log[i].line = "OK"

====
